---- MODULE Spec2Model ----
(***************************************************************************)
(* Model of the gdrive MCP server (smorand/gdrive):                        *)
(*   - the OAuth 2.1 authorization server of internal/mcp/oauth2.go        *)
(*     (authorize, callback, token, TTL sweeper) with its three maps,      *)
(*   - the bearer middleware, the per-request context injection and the    *)
(*     tool handlers that read the context (internal/mcp, internal/auth). *)
(* Every HTTP handler is split at the points where it releases the store   *)
(* lock or waits for the upstream provider, so that concurrent requests    *)
(* interleave exactly where the Go handlers can.                           *)
(***************************************************************************)
EXTENDS Integers, Sequences, FiniteSets, TLC

VARIABLES
    now,          \* wall clock, in minutes since the server was constructed
    clients,      \* OAuth2Server.clients : client_id -> registeredClient
    states,       \* OAuth2Server.states  : internal state -> authState
    codes,        \* OAuth2Server.codes   : code -> authCode
    redirectURL,  \* OAuth2Server.oauthConfig.RedirectURL (shared, unlocked)
    tokenCount,   \* number of values generateToken has returned so far
    authz,        \* GET /oauth/authorize requests in flight, oldest first
    cbs,          \* GET /oauth/callback requests in flight, oldest first
    toks,         \* POST /oauth/token requests in flight, oldest first
    last,         \* the request answered most recently, with its response
    hist,         \* history of the authorizations (not program state)
    rpc,          \* requests to the /mcp endpoint in flight, oldest first
    rpcLast,      \* the /mcp request answered most recently, with its response
    call,         \* the function applied most recently, with its input and result
    proc,         \* the serving process: Server, its http.Server and its goroutines
    drive         \* upstream Google Drive and the drive_delete handlers in flight

vars == <<now, clients, states, codes, redirectURL, tokenCount, authz, cbs, toks,
          last, hist, rpc, rpcLast, call, proc, drive>>

rpcVars == <<rpc, rpcLast>>

\* the variables outside the authorization server and the /mcp endpoint
appVars == <<call, proc, drive>>

\* the variables of the authorization server and of the /mcp endpoint
serverVars == <<now, clients, states, codes, redirectURL, tokenCount, authz, cbs, toks,
                last, hist, rpc, rpcLast>>

-----------------------------------------------------------------------------
(* Bounds of the model.                                                    *)

\* authorizations started (authorize requests accepted) in one behaviour
MaxAuthorize == 1

\* requests the authorization server processes at the same time
MaxInFlight == 2

\* the clock stops here (minutes); past stateTTL and codeTTL
MaxTime == 15

\* the clock is sampled every TickStep minutes
TickStep == 5

\* requests the /mcp endpoint processes at the same time
MaxRPC == 2

\* authorize requests accepted where the registration of clients is followed
MaxRegisterAuthorize == 2

\* clients the registration endpoint creates
MaxRegistered == 1

-----------------------------------------------------------------------------
(* Program constants.                                                      *)

\* const stateTTL = 10 * time.Minute
stateTTL == 10

\* const codeTTL = 10 * time.Minute
codeTTL == 10

\* OAuth2Server.baseURL / ServerConfig.BaseURL
baseURL == "https://drive.mcp.example.com"

-----------------------------------------------------------------------------
(* Go string helpers (package strings), on TLA+ strings.                   *)

HasPrefix(s, p) == Len(s) >= Len(p) /\ SubSeq(s, 1, Len(p)) = p

TrimPrefix(s, p) == IF HasPrefix(s, p) THEN SubSeq(s, Len(p) + 1, Len(s)) ELSE s

Contains(s, sub) ==
    \E i \in 1..(Len(s) - Len(sub) + 1) : SubSeq(s, i, i + Len(sub) - 1) = sub

\* index of the first occurrence of the one-character string ch in s, 0 if none
IndexOf(s, ch) ==
    IF \E i \in 1..Len(s) : SubSeq(s, i, i) = ch
    THEN CHOOSE i \in 1..Len(s) :
            /\ SubSeq(s, i, i) = ch
            /\ \A j \in 1..(i - 1) : SubSeq(s, j, j) # ch
    ELSE 0

\* the part of a URL after its first "?"
RawQuery(url) ==
    IF IndexOf(url, "?") = 0 THEN "" ELSE SubSeq(url, IndexOf(url, "?") + 1, Len(url))

\* url.Values.Get on the parsed query: the pairs are split at "&", each pair at
\* its first "=", and the value of the first pair named key is returned ("" when
\* there is none). The keys and values of the model hold no "%" and no "+", which
\* unescaping would change.
RECURSIVE QueryValue(_, _)
QueryValue(query, key) ==
    IF query = "" THEN ""
    ELSE LET amp  == IndexOf(query, "&")
             pair == IF amp = 0 THEN query ELSE SubSeq(query, 1, amp - 1)
             rest == IF amp = 0 THEN "" ELSE SubSeq(query, amp + 1, Len(query))
             eq   == IndexOf(pair, "=")
             k    == IF eq = 0 THEN pair ELSE SubSeq(pair, 1, eq - 1)
             v    == IF eq = 0 THEN "" ELSE SubSeq(pair, eq + 1, Len(pair))
         IN IF k = key THEN v ELSE QueryValue(rest, key)

\* r.URL.Query().Get(key)
QueryGet(url, key) == QueryValue(RawQuery(url), key)

\* map helpers
Remove(f, k) == [x \in DOMAIN f \ {k} |-> f[x]]

Put(f, k, v) == (k :> v) @@ f

RemoveAt(seq, i) == SubSeq(seq, 1, i - 1) \o SubSeq(seq, i + 1, Len(seq))

\* a counter per key, absent keys counting 0
Count(f, k) == IF k \in DOMAIN f THEN f[k] ELSE 0

Bump(f, k) == Put(f, k, Count(f, k) + 1)

-----------------------------------------------------------------------------
(* generateToken: 32 random bytes, hex encoded. The n-th value drawn is    *)
(* modelled as a string no earlier draw returned and no client can guess.  *)

generateToken(n) == "tok" \o ToString(n)

-----------------------------------------------------------------------------
(* PKCE.                                                                   *)

V1 == "dBjftJeZ4CVP-mB92K27uhbUJU1p1r_wW1gFWFOEjXk"

\* the code_verifier values a token request may present
Verifiers == {"", V1, "wrong-verifier"}

\* base64.RawURLEncoding.EncodeToString(sha256.Sum256(verifier)), tabulated
\* on Verifiers (the values are the real digests)
S256(verifier) ==
    CASE verifier = ""               -> "47DEQpj8HBSa-_TImW-5JCeuQeRkm5NMpJWZG3hSuFU"
      [] verifier = V1               -> "E9Melhoa2OwvFrEMTJguCHaoeK1t8URWbuGJSstw-cM"
      [] verifier = "wrong-verifier" -> "ZugODcX1jSZ8ehrZTQtS5NEW5sILxakqdD2YByJ-xH4"

\* a verification that accepts every verifier
validatePKCEAny(verifier, challenge, method) == method = "S256"

validatePKCE(verifier, challenge, method) ==
    IF method # "S256" THEN FALSE
    ELSE S256(verifier) = challenge

-----------------------------------------------------------------------------
(* Responses.                                                              *)

NoResp == [status |-> 0, error |-> "", desc |-> "", location |-> "", body |-> ""]

\* writeOAuthError
writeOAuthError(status, errCode, description) ==
    [status |-> status, error |-> errCode, desc |-> description,
     location |-> "", body |-> ""]

\* http.Error
httpError(status, text) ==
    [status |-> status, error |-> "", desc |-> text, location |-> "", body |-> ""]

\* http.Redirect(w, r, url, 302)
httpRedirect(url) ==
    [status |-> 302, error |-> "", desc |-> "", location |-> url, body |-> ""]

NoEntry ==
    [ClientID |-> "", RedirectURI |-> "", CodeChallenge |-> "", CodeMethod |-> "",
     ClientState |-> "", GoogleToken |-> "", CreatedAt |-> 0]

\* the record kept of an answered request: the request, the map entry it
\* consumed, the code_verifier it presented, the clock its TTL check read, the
\* token generated for it, and the response
Answered(kind, in, stored, verifier, checkedAt, token, resp) ==
    [kind |-> kind, in |-> in, stored |-> stored, verifier |-> verifier,
     checkedAt |-> checkedAt, token |-> token, afterDenial |-> FALSE,
     redirect |-> "", resp |-> resp]

InFlight == Len(authz) + Len(cbs) + Len(toks)

-----------------------------------------------------------------------------
(* The serving process: construction of the Server and its tool catalog.   *)

\* the tools of the MCP server are a set of names: AddTool keys them by name
registerPingTool(tools) == tools \cup {"ping"}

RegisterReadTools(tools) ==
    tools \cup {"drive_search", "drive_folder_list", "drive_file_info",
                "drive_download_url", "drive_export_url", "drive_activity_changes",
                "drive_activity_deleted", "drive_activity_history",
                "drive_file_revisions"}

RegisterWriteTools(tools) ==
    tools \cup {"drive_delete", "drive_rename", "drive_move", "drive_copy",
                "drive_folder_create", "drive_permissions_list",
                "drive_permissions_update", "drive_create_upload_url"}

\* NewServer: a fresh MCP server on which only the ping tool is registered,
\* not yet listening. The fields after tools are the state of Start:
\*   listening  the listener of httpServer is open
\*   start      where Server.Start is: "idle", "serving" (in ListenAndServe),
\*              "returned"
\*   shutdown   where the signal goroutine is: "waiting" (on sigChan),
\*              "draining" (in httpServer.Shutdown), "drained", "deadline"
\*   inflight   handlers running
\*   elapsed    seconds since Shutdown was called
\*   atReturn   inflight and elapsed when Start returned
\*   exited     the process has ended; cut counts the handlers it ended
\*   listed     what the latest tools/list request was answered
NewServer ==
    [tools     |-> registerPingTool({}),
     listening |-> FALSE,
     start     |-> "idle",
     shutdown  |-> "waiting",
     inflight  |-> 0,
     elapsed   |-> 0,
     atReturn  |-> [inflight |-> 0, elapsed |-> 0],
     exited    |-> FALSE,
     cut       |-> 0,
     listed    |-> {}]

-----------------------------------------------------------------------------
(* Upstream Google Drive as the drive_delete tool sees it.                 *)

\* what the handler of drive_delete answers
DeleteResult(err, fileId, fileName, message, updates) ==
    [err |-> err, fileId |-> fileId, fileName |-> fileName, message |-> message,
     updates |-> updates]

\* two files, neither in the trash; no handler running; nothing answered yet.
\* dels holds the handlers in flight, oldest first; lastDel the request
\* answered most recently with its result, updates counting the Files.Update
\* calls the handler issued.
Upstream ==
    [files   |-> [f \in {"f1", "f2"} |-> [name |-> f \o ".txt", trashed |-> FALSE]],
     dels    |-> <<>>,
     lastDel |-> [in |-> <<>>, out |-> DeleteResult("", "", "", "", 0)]]

-----------------------------------------------------------------------------
(* Initial state: NewOAuth2Server, and an idle /mcp endpoint.              *)

Init ==
    /\ now = 0
    /\ clients = <<>>
    /\ states = <<>>
    /\ codes = <<>>
    /\ redirectURL = ""
    /\ tokenCount = 0
    /\ authz = <<>>
    /\ cbs = <<>>
    /\ toks = <<>>
    /\ last = Answered("none", <<>>, NoEntry, "", 0, "", NoResp)
    /\ hist = [authReq  |-> <<>>,  \* internal state -> the authorize request that made it
               codeOf   |-> <<>>,  \* internal state -> the codes minted for it
               stateOf  |-> <<>>,  \* code -> the internal state it was minted for
               observed |-> <<>>,  \* internal state -> callbacks that found it in the map
               granted  |-> <<>>,  \* code -> token responses that carried its tokens
               denied   |-> {},    \* internal states whose callback reported an upstream error
               started  |-> 0]     \* authorize requests accepted
    /\ rpc = <<>>
    /\ rpcLast = [header |-> "", tool |-> "", forwarded |-> FALSE, status |-> 0,
                  wwwAuthenticate |-> "", ctx |-> <<>>, branch |-> "", result |-> [err |-> "", url |-> ""]]
    /\ call = [op |-> "none", in |-> <<>>, out |-> <<>>]
    /\ proc = NewServer
    /\ drive = Upstream

-----------------------------------------------------------------------------
(* GET /oauth/authorize                                                    *)

Challenges == {"", S256(V1), S256("")}

Methods == {"", "S256", "plain"}

RedirectURIs == {"http://localhost:3000/callback", "http://localhost:3000/cb?app=1"}

ClientStates == {"", "s1", "a&b"}

AuthorizeReq(c, u, ch, m, s) ==
    [client_id |-> c, redirect_uri |-> u, code_challenge |-> ch,
     code_challenge_method |-> m, state |-> s]

\* The query parameters of an authorize request, as r.URL.Query().Get returns
\* them (unescaped).
\* one PKCE client, and a request that misses redirect_uri
AuthorizeInputsCore ==
    {AuthorizeReq("test-client", "http://localhost:3000/callback", S256(V1), "S256", "s1"),
     AuthorizeReq("test-client", "", S256(V1), "S256", "s1")}

\* every combination of code_challenge and code_challenge_method
AuthorizeInputsPKCE ==
    {AuthorizeReq("test-client", "http://localhost:3000/callback", ch, m, "s1") :
        ch \in Challenges, m \in Methods}

\* every combination of redirect_uri and state, and the requests that miss a
\* required parameter
AuthorizeInputsRedirect ==
    {AuthorizeReq("test-client", u, S256(V1), "S256", s) :
        u \in RedirectURIs, s \in ClientStates}
    \cup {AuthorizeReq("", "http://localhost:3000/callback", S256(V1), "S256", "s1"),
          AuthorizeReq("test-client", "", S256(V1), "S256", "s1")}

\* lines 180-199: read the parameters, reject a request that misses client_id or
\* redirect_uri, look the client up under the read lock
HandleAuthorizeUpTo(in, limit) ==
    /\ InFlight < MaxInFlight
    /\ IF in.client_id = "" \/ in.redirect_uri = ""
       THEN /\ last' = Answered("authorize", in, NoEntry, "", 0, "",
                          writeOAuthError(400, "invalid_request",
                                          "client_id and redirect_uri are required"))
            /\ UNCHANGED <<authz, hist>>
       ELSE /\ hist.started < limit
            /\ authz' = Append(authz,
                 [in |-> in,
                  pc |-> IF in.client_id \in DOMAIN clients THEN "store" ELSE "register"])
            /\ hist' = [hist EXCEPT !.started = @ + 1]
            /\ UNCHANGED last
    /\ UNCHANGED <<now, clients, states, codes, redirectURL, tokenCount, cbs, toks, rpcVars, appVars>>

HandleAuthorize(in) == HandleAuthorizeUpTo(in, MaxAuthorize)

\* registerClientWithID: a new record with a fresh secret, written under the lock
registerClientWithID(clientID, redirectURIs) ==
    /\ clients' = Put(clients, clientID,
                      [ClientID |-> clientID,
                       ClientSecret |-> generateToken(tokenCount + 1),
                       RedirectURIs |-> redirectURIs,
                       CreatedAt |-> now])
    /\ tokenCount' = tokenCount + 1

\* lines 196-199: auto-register the client the lookup did not find
AuthorizeRegister(i) ==
    /\ authz[i].pc = "register"
    /\ registerClientWithID(authz[i].in.client_id, <<authz[i].in.redirect_uri>>)
    /\ authz' = [authz EXCEPT ![i].pc = "store"]
    /\ UNCHANGED <<now, states, codes, redirectURL, cbs, toks, last, hist, rpcVars, appVars>>

\* the authState entry HandleAuthorize stores (lines 205-212)
NewAuthState(in, t) ==
    [ClientID |-> in.client_id, RedirectURI |-> in.redirect_uri,
     CodeChallenge |-> in.code_challenge, CodeMethod |-> in.code_challenge_method,
     ClientState |-> in.state, GoogleToken |-> "", CreatedAt |-> t]

\* oauth2.Config.AuthCodeURL: the upstream authorize URL, which carries the
\* config's RedirectURL and the state
AuthCodeURL(redirect, state) ==
    "https://accounts.google.com/o/oauth2/auth?access_type=offline&prompt=consent"
        \o "&redirect_uri=" \o redirect \o "&state=" \o state

\* a redirect URL that leaves the base URL out
CallbackPath(base) == "/oauth/callback"

\* s.baseURL + "/oauth/callback", the value every handler writes to the
\* RedirectURL of the shared config
CallbackURL(base) == base \o "/oauth/callback"

(* The RedirectURL of the shared config is written and read without a lock.  *)
(* A read of a handler comes after the handler's own write and may race     *)
(* with the writes of other handlers; it then returns, word by word, what   *)
(* its own write or a racing write stored. A write is one step here and a   *)
(* read returns the value stored last: the handlers all store CallbackURL,  *)
(* so the words of any two writes a read can mix are those of one value.    *)

\* lines 201-215: generate the internal state, store the entry under the lock,
\* set the shared config's RedirectURL
AuthorizeStore(i) ==
    /\ authz[i].pc = "store"
    /\ LET internalState == generateToken(tokenCount + 1) IN
        /\ tokenCount' = tokenCount + 1
        /\ states' = Put(states, internalState, NewAuthState(authz[i].in, now))
        /\ redirectURL' = CallbackURL(baseURL)
        /\ authz' = [authz EXCEPT ![i] = [in |-> authz[i].in, pc |-> "redirect",
                                          internalState |-> internalState]]
    /\ UNCHANGED <<now, clients, codes, cbs, toks, last, hist, rpcVars, appVars>>

\* lines 216-223: AuthCodeURL reads the shared config, and the caller is
\* redirected to the upstream provider
AuthorizeRedirect(i) ==
    /\ authz[i].pc = "redirect"
    /\ last' = [Answered("authorize", authz[i].in, NoEntry, "", 0, authz[i].internalState,
                         httpRedirect(AuthCodeURL(redirectURL, authz[i].internalState)))
                    EXCEPT !.redirect = redirectURL]
    /\ hist' = [hist EXCEPT !.authReq = Put(@, authz[i].internalState, authz[i].in)]
    /\ authz' = RemoveAt(authz, i)
    /\ UNCHANGED <<now, clients, states, codes, redirectURL, tokenCount, cbs, toks,
                   rpcVars, appVars>>

-----------------------------------------------------------------------------
(* GET /oauth/callback                                                     *)

\* the internal states the upstream provider was given (in a 302 of authorize)
IssuedStates == DOMAIN hist.authReq

CallbackReq(e, c, s) == [error |-> e, code |-> c, state |-> s]

\* the provider's success redirect: a code and the state it was given
CallbackInputsSuccess == {CallbackReq("", "upstream-code", s) : s \in IssuedStates}

\* also: the provider's error redirect (error and state), a state the server
\* never issued, and a request without code
CallbackInputs ==
    CallbackInputsSuccess
    \cup {CallbackReq("", "upstream-code", "invalid")}
    \cup {CallbackReq("access_denied", "", s) : s \in IssuedStates}
    \cup {CallbackReq("", "", "abc")}

\* time.Since(createdAt) > stateTTL
StateExpired(createdAt, t) == t - createdAt > stateTTL

\* a lookup that leaves the state in the map
LookupStateKeep(s) ==
    IF s \in DOMAIN states
    THEN [exists |-> TRUE, stored |-> states[s], rest |-> states]
    ELSE [exists |-> FALSE, stored |-> NoEntry, rest |-> states]

\* lines 243-249: look the state up and delete it, in one critical section
LookupState(s) ==
    IF s \in DOMAIN states
    THEN [exists |-> TRUE, stored |-> states[s], rest |-> Remove(states, s)]
    ELSE [exists |-> FALSE, stored |-> NoEntry, rest |-> states]

\* lines 227-254: the upstream error, the missing parameters, then the
\* lookup-and-delete of the state under the lock
HandleCallback(in) ==
    /\ InFlight < MaxInFlight
    /\ LET look == LookupState(in.state)
           answer(resp) ==
               [Answered("callback", in, NoEntry, "", 0, "", resp)
                    EXCEPT !.afterDenial = in.state \in hist.denied]
       IN
        IF in.error # ""
        THEN /\ last' = answer(writeOAuthError(400, in.error, "Authorization denied by user"))
             /\ hist' = [hist EXCEPT !.denied = @ \cup {in.state}]
             /\ UNCHANGED <<states, cbs>>
        ELSE IF in.code = "" \/ in.state = ""
        THEN /\ last' = answer(writeOAuthError(400, "invalid_request", "Missing code or state"))
             /\ UNCHANGED <<states, cbs, hist>>
        ELSE IF ~look.exists
        THEN /\ last' = answer(writeOAuthError(400, "invalid_request", "Invalid or expired state"))
             /\ UNCHANGED <<states, cbs, hist>>
        ELSE /\ states' = look.rest
             /\ cbs' = Append(cbs, [in |-> in, pc |-> "ttl", stored |-> look.stored,
                                    checkedAt |-> 0,
                                    afterDenial |-> in.state \in hist.denied])
             /\ hist' = [hist EXCEPT !.observed = Bump(@, in.state)]
             /\ UNCHANGED last
    /\ UNCHANGED <<now, clients, codes, redirectURL, tokenCount, authz, toks, rpcVars, appVars>>

\* lines 256-263: the TTL of the state that was found, read from the clock after
\* the lock is released; then the write of the shared config's RedirectURL
CallbackCheckTTL(i) ==
    /\ cbs[i].pc = "ttl"
    /\ IF StateExpired(cbs[i].stored.CreatedAt, now)
       THEN /\ last' = [Answered("callback", cbs[i].in, cbs[i].stored, "", now, "",
                            writeOAuthError(400, "invalid_request", "Invalid or expired state"))
                            EXCEPT !.afterDenial = cbs[i].afterDenial]
            /\ cbs' = RemoveAt(cbs, i)
            /\ UNCHANGED redirectURL
       ELSE /\ cbs' = [cbs EXCEPT ![i].pc = "exchange", ![i].checkedAt = now]
            /\ redirectURL' = CallbackURL(baseURL)
            /\ UNCHANGED last
    /\ UNCHANGED <<now, clients, states, codes, tokenCount, authz, toks, hist, rpcVars, appVars>>

\* the authCode entry HandleCallback stores (lines 279-287)
NewAuthCode(stored, googleToken, t) ==
    [ClientID |-> stored.ClientID, RedirectURI |-> stored.RedirectURI,
     CodeChallenge |-> stored.CodeChallenge, CodeMethod |-> stored.CodeMethod,
     ClientState |-> "", GoogleToken |-> googleToken, CreatedAt |-> t]

\* lines 290-299: the client's redirect_uri with our code and the client's state
\* appended as they are
ClientRedirectURL(stored, ourCode) ==
    stored.RedirectURI
        \o (IF Contains(stored.RedirectURI, "?") THEN "&" ELSE "?")
        \o "code=" \o ourCode
        \o (IF stored.ClientState # "" THEN "&state=" \o stored.ClientState ELSE "")

AcceptHeaders == {"", "text/html,application/xhtml+xml"}

\* lines 264-317: the upstream exchange returns (ok or not); on success a fresh
\* code is stored under the lock and the caller is sent to the client's
\* redirect URI, by a 302 or, when Accept has text/html, by a page that does it
CallbackExchange(i, ok, accept) ==
    /\ cbs[i].pc = "exchange"
    /\ LET answer(token, resp) ==
               [Answered("callback", cbs[i].in, cbs[i].stored, "", cbs[i].checkedAt,
                         token, resp) EXCEPT !.afterDenial = cbs[i].afterDenial,
                                             !.redirect = redirectURL]
       IN
       IF ~ok
       THEN /\ last' = answer("", writeOAuthError(500, "server_error",
                                      "Failed to exchange authorization code"))
            /\ UNCHANGED <<codes, tokenCount, hist>>
       ELSE LET ourCode == generateToken(tokenCount + 1)
                googleToken == "access-" \o ToString(tokenCount + 1)
                url == ClientRedirectURL(cbs[i].stored, ourCode)
            IN
            /\ tokenCount' = tokenCount + 1
            /\ codes' = Put(codes, ourCode, NewAuthCode(cbs[i].stored, googleToken, now))
            /\ last' = answer(ourCode,
                          IF Contains(accept, "text/html")
                          THEN [status |-> 200, error |-> "", desc |-> "",
                                location |-> url, body |-> "html"]
                          ELSE httpRedirect(url))
            /\ hist' = [hist EXCEPT
                          !.codeOf = Put(@, cbs[i].in.state,
                                         (IF cbs[i].in.state \in DOMAIN @
                                          THEN @[cbs[i].in.state] ELSE {}) \cup {ourCode}),
                          !.stateOf = Put(@, ourCode, cbs[i].in.state)]
    /\ cbs' = RemoveAt(cbs, i)
    /\ UNCHANGED <<now, clients, states, redirectURL, authz, toks, rpcVars, appVars>>

-----------------------------------------------------------------------------
(* POST /oauth/token                                                       *)

\* the codes the clients were sent (in a successful callback)
IssuedCodes == DOMAIN hist.stateOf

TokenReq(m, g, c, r) ==
    [method |-> m, formOK |-> TRUE, grant_type |-> g, code |-> c, refresh_token |-> r]

\* an exchange of a code the client was sent
TokenInputsExchange == {TokenReq("POST", "authorization_code", c, "") : c \in IssuedCodes}

\* also: a code the server never issued
TokenInputsCore ==
    TokenInputsExchange \cup {TokenReq("POST", "authorization_code", "invalid-code", "")}

\* also: the other grant types, another method
TokenInputs ==
    TokenInputsCore
    \cup {TokenReq("POST", "refresh_token", "", "upstream-refresh"),
          TokenReq("POST", "refresh_token", "", ""),
          TokenReq("POST", "implicit", "", ""),
          TokenReq("GET", "authorization_code", "invalid-code", "")}

\* a code that never expires
CodeNeverExpired(createdAt, t) == FALSE

\* time.Since(createdAt) > codeTTL
CodeExpired(createdAt, t) == t - createdAt > codeTTL

\* a lookup that leaves the code in the map
LookupCodeKeep(c) ==
    IF c \in DOMAIN codes
    THEN [exists |-> TRUE, stored |-> codes[c], rest |-> codes]
    ELSE [exists |-> FALSE, stored |-> NoEntry, rest |-> codes]

\* lines 352-358: look the code up and delete it, in one critical section
LookupCode(c) ==
    IF c \in DOMAIN codes
    THEN [exists |-> TRUE, stored |-> codes[c], rest |-> Remove(codes, c)]
    ELSE [exists |-> FALSE, stored |-> NoEntry, rest |-> codes]

\* the token response (lines 384-403; refresh_token and expires_in, which depend
\* on the upstream token alone, are left out)
tokenResponse(accessToken) ==
    [status |-> 200, error |-> "", desc |-> "", location |-> "", body |-> accessToken]

\* a switch that sends every grant type but authorization_code to the refresh
\* handler
GrantSwitchLoose(grantType) ==
    IF grantType = "authorization_code" THEN "authorization_code" ELSE "refresh_token"

\* lines 333-340: the switch on grant_type
GrantSwitch(grantType) ==
    CASE grantType = "authorization_code" -> "authorization_code"
      [] grantType = "refresh_token" -> "refresh_token"
      [] OTHER -> "default"

\* lines 320-363 and 406-443: method, form, grant_type, then for authorization_code
\* the lookup-and-delete of the code under the lock, for refresh_token the
\* upstream refresh (which succeeds or fails)
HandleToken(in, upstreamOK) ==
    /\ InFlight < MaxInFlight
    /\ LET look == LookupCode(in.code)
           answer(resp) == Answered("token", in, NoEntry, "", 0, "", resp)
       IN
        IF in.method # "POST"
        THEN /\ last' = answer(httpError(405, "Method not allowed"))
             /\ UNCHANGED <<codes, toks>>
        ELSE IF ~in.formOK
        THEN /\ last' = answer(writeOAuthError(400, "invalid_request", "Invalid form data"))
             /\ UNCHANGED <<codes, toks>>
        ELSE IF GrantSwitch(in.grant_type) = "authorization_code"
        THEN IF in.code = ""
             THEN /\ last' = answer(writeOAuthError(400, "invalid_request", "Missing code"))
                  /\ UNCHANGED <<codes, toks>>
             ELSE IF ~look.exists
             THEN /\ last' = answer(writeOAuthError(400, "invalid_grant",
                                        "Invalid or expired authorization code"))
                  /\ UNCHANGED <<codes, toks>>
             ELSE /\ codes' = look.rest
                  /\ toks' = Append(toks, [in |-> in, pc |-> "verify", stored |-> look.stored])
                  /\ UNCHANGED last
        ELSE IF GrantSwitch(in.grant_type) = "refresh_token"
        THEN /\ last' = answer(
                    IF in.refresh_token = ""
                    THEN writeOAuthError(400, "invalid_request", "Missing refresh_token")
                    ELSE IF upstreamOK
                    THEN tokenResponse("refreshed-access")
                    ELSE writeOAuthError(400, "invalid_grant", "Failed to refresh token"))
             /\ UNCHANGED <<codes, toks>>
        ELSE /\ last' = answer(writeOAuthError(400, "unsupported_grant_type",
                                   "Unsupported grant type: " \o in.grant_type))
             /\ UNCHANGED <<codes, toks>>
    /\ UNCHANGED <<now, clients, states, redirectURL, tokenCount, authz, cbs, hist, rpcVars, appVars>>

\* lines 371-381: PKCE is checked when the stored challenge is not empty; the
\* description of the rejection, "" when the exchange goes on
PKCERejection(stored, codeVerifier) ==
    IF stored.CodeChallenge # ""
    THEN IF codeVerifier = "" THEN "Missing code_verifier"
         ELSE IF ~validatePKCE(codeVerifier, stored.CodeChallenge, stored.CodeMethod)
         THEN "Invalid code_verifier"
         ELSE ""
    ELSE ""

\* lines 365-404: the TTL of the code that was found, then PKCE, then the tokens
TokenVerify(i, codeVerifier) ==
    /\ toks[i].pc = "verify"
    /\ LET stored == toks[i].stored
           resp == IF CodeExpired(stored.CreatedAt, now)
                   THEN writeOAuthError(400, "invalid_grant",
                                        "Invalid or expired authorization code")
                   ELSE IF PKCERejection(stored, codeVerifier) # ""
                   THEN writeOAuthError(400, "invalid_grant",
                                        PKCERejection(stored, codeVerifier))
                   ELSE tokenResponse(stored.GoogleToken)
       IN /\ last' = Answered("token", toks[i].in, stored, codeVerifier, now, "", resp)
          /\ hist' = IF resp.status = 200
                     THEN [hist EXCEPT !.granted = Bump(@, toks[i].in.code)]
                     ELSE hist
    /\ toks' = RemoveAt(toks, i)
    /\ UNCHANGED <<now, clients, states, codes, redirectURL, tokenCount, authz, cbs, rpcVars, appVars>>

-----------------------------------------------------------------------------
(* The sweeper and the clock.                                              *)

\* a pass that also removes the entries whose age is exactly the TTL
UnexpiredBelow(entries, ttl, t) ==
    [k \in {x \in DOMAIN entries : ~(t - entries[x].CreatedAt >= ttl)} |-> entries[k]]

\* lines 107-116: the entries one pass of the sweeper keeps
Unexpired(entries, ttl, t) ==
    [k \in {x \in DOMAIN entries : ~(t - entries[x].CreatedAt > ttl)} |-> entries[k]]

\* cleanupLoop: one pass, under the exclusive lock (a pass that finds nothing
\* to remove changes nothing)
cleanupLoop ==
    /\ states' = Unexpired(states, stateTTL, now)
    /\ codes' = Unexpired(codes, codeTTL, now)
    /\ <<states', codes'>> # <<states, codes>>
    /\ UNCHANGED <<now, clients, redirectURL, tokenCount, authz, cbs, toks, last, hist, rpcVars, appVars>>

\* time passes (it is followed only while an entry or a request can age)
Tick ==
    /\ now + TickStep <= MaxTime
    /\ DOMAIN states # {} \/ DOMAIN codes # {} \/ InFlight > 0
    /\ now' = now + TickStep
    /\ UNCHANGED <<clients, states, codes, redirectURL, tokenCount, authz, cbs, toks,
                   last, hist, rpcVars, appVars>>

-----------------------------------------------------------------------------
(* The authorization server: every endpoint, the sweeper and the clock.    *)

Next ==
    \/ \E in \in AuthorizeInputsCore : HandleAuthorize(in)
    \/ \E i \in 1..Len(authz) : AuthorizeRegister(i)
    \/ \E i \in 1..Len(authz) : AuthorizeStore(i)
    \/ \E i \in 1..Len(authz) : AuthorizeRedirect(i)
    \/ \E in \in CallbackInputs : HandleCallback(in)
    \/ \E i \in 1..Len(cbs) : CallbackCheckTTL(i)
    \/ \E i \in 1..Len(cbs), ok \in BOOLEAN, accept \in AcceptHeaders :
            CallbackExchange(i, ok, accept)
    \/ \E in \in TokenInputsCore : HandleToken(in, TRUE)
    \/ \E i \in 1..Len(toks), v \in Verifiers : TokenVerify(i, v)
    \/ cleanupLoop
    \/ Tick

Spec == Init /\ [][Next]_vars

-----------------------------------------------------------------------------
(* The sweeper for the lifetime of the server (SpecSweep): the ticker      *)
(* fires every minute and the clock does not stop, so a pass and a tick    *)
(* that stay possible eventually happen. Entries are created while the     *)
(* clock of the model can still carry them past their TTL.                 *)

CanOutlive(ttl) == now + ttl + TickStep <= MaxTime

NextSweep ==
    \/ \E in \in AuthorizeInputsCore : HandleAuthorize(in)
    \/ \E i \in 1..Len(authz) : AuthorizeRegister(i)
    \/ \E i \in 1..Len(authz) : CanOutlive(stateTTL) /\ AuthorizeStore(i)
    \/ \E i \in 1..Len(authz) : AuthorizeRedirect(i)
    \/ \E in \in CallbackInputs : HandleCallback(in)
    \/ \E i \in 1..Len(cbs) : CallbackCheckTTL(i)
    \/ \E i \in 1..Len(cbs), ok \in BOOLEAN, accept \in AcceptHeaders :
            CanOutlive(codeTTL) /\ CallbackExchange(i, ok, accept)
    \/ cleanupLoop
    \/ Tick

SpecSweep == Init /\ [][NextSweep]_vars /\ WF_vars(cleanupLoop) /\ WF_vars(Tick)

-----------------------------------------------------------------------------
(* One authorization at a time, followed from authorize to the token        *)
(* exchange without the clock, for every PKCE setting of the authorize      *)
(* request (SpecPKCE) and for every redirect_uri and state (SpecRedirect).  *)

Flow(authorizeInputs) ==
    \/ \E in \in authorizeInputs : HandleAuthorize(in)
    \/ \E i \in 1..Len(authz) : AuthorizeRegister(i)
    \/ \E i \in 1..Len(authz) : AuthorizeStore(i)
    \/ \E i \in 1..Len(authz) : AuthorizeRedirect(i)
    \/ \E in \in CallbackInputsSuccess : HandleCallback(in)
    \/ \E i \in 1..Len(cbs) : CallbackCheckTTL(i)
    \/ \E i \in 1..Len(cbs), ok \in BOOLEAN, accept \in AcceptHeaders :
            CallbackExchange(i, ok, accept)
    \/ \E in \in TokenInputs, upstreamOK \in BOOLEAN : HandleToken(in, upstreamOK)
    \/ \E i \in 1..Len(toks), v \in Verifiers : TokenVerify(i, v)

NextPKCE == Flow(AuthorizeInputsPKCE)

SpecPKCE == Init /\ [][NextPKCE]_vars

NextRedirect == Flow(AuthorizeInputsRedirect)

SpecRedirect == Init /\ [][NextRedirect]_vars

-----------------------------------------------------------------------------
(* The /mcp endpoint: bearer middleware, context injection, tool handlers.  *)

\* context keys of package auth
ctxKeyOAuthConfig == "oauth_config"

ctxKeyAccessToken == "access_token"

\* the Authorization headers a request may carry
RpcHeaders ==
    {"", "Basic dXNlcjpwYXNz", "Bearer", "bearer token-a", "Bearer ",
     "Bearer token-a", "Bearer token-b"}

\* the tools a request may call: ping, and the three that put the token in a URL
RpcTools == {"ping", "drive_download_url", "drive_export_url", "drive_create_upload_url"}

\* what the upstream Drive API answers about the file a tool asks for
NoFile == [found |-> FALSE, id |-> "", name |-> "", mimeType |-> ""]

UpstreamFiles ==
    {NoFile,
     [found |-> TRUE, id |-> "f1", name |-> "report", mimeType |-> "application/pdf"],
     [found |-> TRUE, id |-> "f1", name |-> "report",
      mimeType |-> "application/vnd.google-apps.document"]}

\* a validation that accepts the empty token
ValidateAccessTokenAny(accessToken) ==
    [err |-> "", config |-> "oauthConfig", token |-> [AccessToken |-> accessToken]]

\* ValidateAccessToken: any non-empty token is accepted, and comes back with the
\* server's upstream OAuth config
ValidateAccessToken(accessToken) ==
    IF accessToken = ""
    THEN [err |-> "empty access token", config |-> "", token |-> [AccessToken |-> ""]]
    ELSE [err |-> "", config |-> "oauthConfig", token |-> [AccessToken |-> accessToken]]

\* the WWW-Authenticate values of authMiddleware
resourceMetadata == baseURL \o "/.well-known/oauth-protected-resource"

\* authMiddleware: the 401 it writes, or status 0 when it calls the next handler
authMiddleware(authHeader) ==
    IF authHeader = "" \/ ~HasPrefix(authHeader, "Bearer ")
    THEN [status |-> 401,
          wwwAuthenticate |-> "Bearer resource_metadata=\"" \o resourceMetadata \o "\"",
          body |-> "Authentication required"]
    ELSE IF ValidateAccessToken(TrimPrefix(authHeader, "Bearer ")).err # ""
    THEN [status |-> 401,
          wwwAuthenticate |-> "Bearer error=\"invalid_token\", resource_metadata=\""
                                 \o resourceMetadata \o "\"",
          body |-> "Invalid token"]
    ELSE [status |-> 0, wwwAuthenticate |-> "", body |-> ""]

\* context.WithValue
WithValue(ctx, key, value) == Put(ctx, key, value)

WithOAuthConfig(ctx, config) == WithValue(ctx, ctxKeyOAuthConfig, config)

WithAccessToken(ctx, token) == WithValue(ctx, ctxKeyAccessToken, token)

\* a context function that injects nothing
httpContextFuncNone(ctx, authHeader) == ctx

\* httpContextFunc: the context of the request, with the config and the token of
\* its bearer when the header has one that validates
httpContextFunc(ctx, authHeader) ==
    IF ~HasPrefix(authHeader, "Bearer ") THEN ctx
    ELSE LET v == ValidateAccessToken(TrimPrefix(authHeader, "Bearer ")) IN
         IF v.err # "" THEN ctx
         ELSE WithAccessToken(WithOAuthConfig(ctx, v.config), v.token)

GetOAuthConfigFromContext(ctx) ==
    IF ctxKeyOAuthConfig \in DOMAIN ctx
    THEN [ok |-> TRUE, config |-> ctx[ctxKeyOAuthConfig]]
    ELSE [ok |-> FALSE, config |-> ""]

GetAccessTokenFromContext(ctx) ==
    IF ctxKeyAccessToken \in DOMAIN ctx
    THEN [ok |-> TRUE, token |-> ctx[ctxKeyAccessToken]]
    ELSE [ok |-> FALSE, token |-> [AccessToken |-> ""]]

\* GetClientFromContext: an HTTP client that sends the context's token, or nil
GetClientFromContext(ctx) ==
    IF GetOAuthConfigFromContext(ctx).ok /\ GetAccessTokenFromContext(ctx).ok
    THEN [nil |-> FALSE, credential |-> GetAccessTokenFromContext(ctx).token.AccessToken]
    ELSE [nil |-> TRUE, credential |-> ""]

\* GetAuthenticatedServiceWithContext: the context's credentials when it has
\* them, else the credential and token files of the CLI (which load or not)
GetAuthenticatedServiceWithContext(ctx, filesOK) ==
    IF ~GetClientFromContext(ctx).nil
    THEN [branch |-> "context", err |-> "",
          credential |-> GetClientFromContext(ctx).credential]
    ELSE IF filesOK
    THEN [branch |-> "file", err |-> "", credential |-> "token.json"]
    ELSE [branch |-> "file", err |-> "unable to read credentials file", credential |-> ""]

\* getDriveService
getDriveService(ctx, filesOK) ==
    LET srv == GetAuthenticatedServiceWithContext(ctx, filesOK) IN
    IF srv.err # "" THEN [srv EXCEPT !.err = "authentication failed: " \o @] ELSE srv

IsGoogleWorkspaceFile(item) ==
    item.mimeType \in {"application/vnd.google-apps.document",
                       "application/vnd.google-apps.spreadsheet",
                       "application/vnd.google-apps.presentation",
                       "application/vnd.google-apps.form",
                       "application/vnd.google-apps.drawing",
                       "application/vnd.google-apps.map",
                       "application/vnd.google-apps.site"}

\* ExportFormats: Google Workspace MIME type -> export format -> MIME type
ExportFormats ==
    [m \in {"application/vnd.google-apps.document",
            "application/vnd.google-apps.spreadsheet",
            "application/vnd.google-apps.presentation"} |->
        CASE m = "application/vnd.google-apps.document" ->
                 [f \in {"pdf", "docx", "txt", "html"} |->
                     CASE f = "pdf"  -> "application/pdf"
                       [] f = "docx" -> "application/vnd.openxmlformats-officedocument.wordprocessingml.document"
                       [] f = "txt"  -> "text/plain"
                       [] f = "html" -> "text/html"]
          [] m = "application/vnd.google-apps.spreadsheet" ->
                 [f \in {"xlsx", "pdf", "csv"} |->
                     CASE f = "xlsx" -> "application/vnd.openxmlformats-officedocument.spreadsheetml.sheet"
                       [] f = "pdf"  -> "application/pdf"
                       [] f = "csv"  -> "text/csv"]
          [] m = "application/vnd.google-apps.presentation" ->
                 [f \in {"pptx", "pdf"} |->
                     CASE f = "pptx" -> "application/vnd.openxmlformats-officedocument.presentationml.presentation"
                       [] f = "pdf"  -> "application/pdf"]]

GetExportMimeType(workspaceMimeType, format) ==
    IF workspaceMimeType \in DOMAIN ExportFormats
         /\ format \in DOMAIN ExportFormats[workspaceMimeType]
    THEN ExportFormats[workspaceMimeType][format]
    ELSE ""

ToolResult(err, url) == [err |-> err, url |-> url]

\* a download that refuses every file whose type begins like a Google type
DownloadURLByPrefix(ctx, fileID, file) ==
    IF ~file.found THEN ToolResult("file not found", "")
    ELSE IF HasPrefix(file.mimeType, "application/vnd.google-apps.")
    THEN ToolResult("cannot download Google Workspace file '" \o file.name \o "' ("
                        \o file.mimeType
                        \o "). Use drive_export_url to export it to a standard format", "")
    ELSE IF ~GetAccessTokenFromContext(ctx).ok
    THEN ToolResult("no access token in context", "")
    ELSE ToolResult("", "https://www.googleapis.com/drive/v3/files/" \o fileID
                          \o "?alt=media&access_token="
                          \o GetAccessTokenFromContext(ctx).token.AccessToken)

\* drive_download_url, after getDriveService: metadata, type, token, URL
DownloadURL(ctx, fileID, file) ==
    IF ~file.found THEN ToolResult("file not found", "")
    ELSE IF IsGoogleWorkspaceFile(file)
    THEN ToolResult("cannot download Google Workspace file '" \o file.name \o "' ("
                        \o file.mimeType
                        \o "). Use drive_export_url to export it to a standard format", "")
    ELSE IF ~GetAccessTokenFromContext(ctx).ok
    THEN ToolResult("no access token in context", "")
    ELSE ToolResult("", "https://www.googleapis.com/drive/v3/files/" \o fileID
                          \o "?alt=media&access_token="
                          \o GetAccessTokenFromContext(ctx).token.AccessToken)

\* drive_export_url, after getDriveService: metadata, type, format, token, URL
ExportURL(ctx, fileID, format, file) ==
    IF ~file.found THEN ToolResult("file not found", "")
    ELSE IF ~IsGoogleWorkspaceFile(file)
    THEN ToolResult("file '" \o file.name \o "' (" \o file.mimeType
                        \o ") is not a Google Workspace file. Use drive_download_url instead", "")
    ELSE IF GetExportMimeType(file.mimeType, format) = ""
    THEN ToolResult("unsupported export format '" \o format \o "' for " \o file.mimeType
                        \o ". Supported formats: ", "")
    ELSE IF ~GetAccessTokenFromContext(ctx).ok
    THEN ToolResult("no access token in context", "")
    ELSE ToolResult("", "https://www.googleapis.com/drive/v3/files/" \o fileID
                          \o "/export?mimeType=" \o GetExportMimeType(file.mimeType, format)
                          \o "&access_token="
                          \o GetAccessTokenFromContext(ctx).token.AccessToken)

\* drive_create_upload_url, after getDriveService: existing file, token, URL
CreateUploadURL(ctx, existing) ==
    IF ~GetAccessTokenFromContext(ctx).ok
    THEN ToolResult("no access token in context", "")
    ELSE IF existing.found
    THEN ToolResult("", "https://www.googleapis.com/upload/drive/v3/files/" \o existing.id
                          \o "?uploadType=resumable&access_token="
                          \o GetAccessTokenFromContext(ctx).token.AccessToken)
    ELSE ToolResult("", "https://www.googleapis.com/upload/drive/v3/files"
                          \o "?uploadType=resumable&access_token="
                          \o GetAccessTokenFromContext(ctx).token.AccessToken)

\* one scope for the whole endpoint: the context of the latest request
LatestContext(i) == rpc[Len(rpc)].ctx

\* the context the handlers of request i are called with: the one built from
\* that request
RequestContext(i) == rpc[i].ctx

\* a request reaches the endpoint and goes through authMiddleware
RpcRequest(authHeader, tool) ==
    /\ Len(rpc) < MaxRPC
    /\ LET mw == authMiddleware(authHeader) IN
       IF mw.status # 0
       THEN /\ rpcLast' = [header |-> authHeader, tool |-> tool, forwarded |-> FALSE,
                           status |-> mw.status, wwwAuthenticate |-> mw.wwwAuthenticate,
                           ctx |-> <<>>, branch |-> "", result |-> ToolResult("", "")]
            /\ UNCHANGED rpc
       ELSE /\ rpc' = Append(rpc, [header |-> authHeader, tool |-> tool,
                                   pc |-> "context", ctx |-> <<>>, branch |-> ""])
            /\ UNCHANGED rpcLast
    /\ UNCHANGED <<now, clients, states, codes, redirectURL, tokenCount, authz, cbs, toks,
                   last, hist, appVars>>

\* the transport calls httpContextFunc with the request
RpcContext(i) ==
    /\ rpc[i].pc = "context"
    /\ rpc' = [rpc EXCEPT ![i].ctx = httpContextFunc(<<>>, rpc[i].header),
                          ![i].pc = "handler"]
    /\ UNCHANGED <<now, clients, states, codes, redirectURL, tokenCount, authz, cbs, toks,
                   last, hist, rpcLast, appVars>>

\* the answer of a forwarded request
RpcAnswer(i, branch, result) ==
    /\ rpcLast' = [header |-> rpc[i].header, tool |-> rpc[i].tool, forwarded |-> TRUE,
                   status |-> 200, wwwAuthenticate |-> "", ctx |-> RequestContext(i),
                   branch |-> branch, result |-> result]
    /\ rpc' = RemoveAt(rpc, i)

\* the tool handler starts: ping answers, the others call getDriveService
RpcHandler(i, filesOK) ==
    /\ rpc[i].pc = "handler"
    /\ IF rpc[i].tool = "ping"
       THEN RpcAnswer(i, "", ToolResult("", ""))
       ELSE LET srv == getDriveService(RequestContext(i), filesOK) IN
            IF srv.err # ""
            THEN RpcAnswer(i, srv.branch, ToolResult(srv.err, ""))
            ELSE /\ rpc' = [rpc EXCEPT ![i].pc = "upstream", ![i].branch = srv.branch]
                 /\ UNCHANGED rpcLast
    /\ UNCHANGED <<now, clients, states, codes, redirectURL, tokenCount, authz, cbs, toks,
                   last, hist, appVars>>

\* the upstream metadata call returns and the handler builds its result
RpcUpstream(i, file) ==
    /\ rpc[i].pc = "upstream"
    /\ RpcAnswer(i, rpc[i].branch,
            CASE rpc[i].tool = "drive_download_url" -> DownloadURL(RequestContext(i), "f1", file)
              [] rpc[i].tool = "drive_export_url" -> ExportURL(RequestContext(i), "f1", "pdf", file)
              [] rpc[i].tool = "drive_create_upload_url" -> CreateUploadURL(RequestContext(i), file))
    /\ UNCHANGED <<now, clients, states, codes, redirectURL, tokenCount, authz, cbs, toks,
                   last, hist, appVars>>

NextRPC ==
    \/ \E authHeader \in RpcHeaders, tool \in RpcTools : RpcRequest(authHeader, tool)
    \/ \E i \in 1..Len(rpc) : RpcContext(i)
    \/ \E i \in 1..Len(rpc), filesOK \in BOOLEAN : RpcHandler(i, filesOK)
    \/ \E i \in 1..Len(rpc), file \in UpstreamFiles : RpcUpstream(i, file)

SpecRPC == Init /\ [][NextRPC]_vars

-----------------------------------------------------------------------------
(* POST /oauth/register, and the registration of clients by authorize      *)
(* (SpecRegister): two authorize requests at a time, no callback.          *)

RegistrationReq(m, valid, uris) == [method |-> m, validJSON |-> valid, redirect_uris |-> uris]

\* a registration, a body that is not JSON, another method
RegistrationInputs ==
    {RegistrationReq("POST", TRUE, <<"http://localhost:3000/callback">>),
     RegistrationReq("POST", FALSE, <<>>),
     RegistrationReq("GET", TRUE, <<>>)}

\* registerClient: a fresh client_id, then registerClientWithID
registerClient(redirectURIs) ==
    /\ clients' = Put(clients, generateToken(tokenCount + 1),
                      [ClientID |-> generateToken(tokenCount + 1),
                       ClientSecret |-> generateToken(tokenCount + 2),
                       RedirectURIs |-> redirectURIs,
                       CreatedAt |-> now])
    /\ tokenCount' = tokenCount + 2

\* HandleClientRegistration: 405, 400 on a body that does not decode, else 201
\* with the new client (its client_id is the body of the model's response)
HandleClientRegistration(in) ==
    /\ InFlight < MaxInFlight
    /\ LET answer(resp) == Answered("register", in, NoEntry, "", 0, "", resp) IN
       IF in.method # "POST"
       THEN /\ last' = answer(httpError(405, "Method not allowed"))
            /\ UNCHANGED <<clients, tokenCount>>
       ELSE IF ~in.validJSON
       THEN /\ last' = answer(writeOAuthError(400, "invalid_request", "Invalid JSON body"))
            /\ UNCHANGED <<clients, tokenCount>>
       ELSE /\ Cardinality({c \in DOMAIN clients : c # "test-client"}) < MaxRegistered
            /\ registerClient(in.redirect_uris)
            /\ last' = answer([status |-> 201, error |-> "", desc |-> "", location |-> "",
                               body |-> generateToken(tokenCount + 1)])
    /\ UNCHANGED <<now, states, codes, redirectURL, authz, cbs, toks, hist, rpcVars, appVars>>

\* authorize requests of one client with either redirect_uri
AuthorizeInputsRegister ==
    {AuthorizeReq("test-client", u, S256(V1), "S256", "s1") : u \in RedirectURIs}

NextRegister ==
    \/ \E in \in RegistrationInputs : HandleClientRegistration(in)
    \/ \E in \in AuthorizeInputsRegister : HandleAuthorizeUpTo(in, MaxRegisterAuthorize)
    \/ \E i \in 1..Len(authz) : AuthorizeRegister(i)
    \/ \E i \in 1..Len(authz) : AuthorizeStore(i)
    \/ \E i \in 1..Len(authz) : AuthorizeRedirect(i)

SpecRegister == Init /\ [][NextRegister]_vars

-----------------------------------------------------------------------------
(* The grant types of the token endpoint and of the metadata (SpecGrants). *)

\* HandleAuthorizationServerMetadata: grant_types_supported
GrantTypesSupported == {"authorization_code", "refresh_token"}

\* HandleAuthorizationServerMetadata: code_challenge_methods_supported
CodeChallengeMethodsSupported == {"S256"}

\* token requests of every kind: also no grant_type, other spellings and grant
\* types, a missing code, a body that does not parse, GET
TokenInputsGrants ==
    TokenInputs
    \cup {TokenReq("POST", "", "", ""),
          TokenReq("POST", "Authorization_Code", "invalid-code", ""),
          TokenReq("POST", "client_credentials", "", ""),
          TokenReq("POST", "password", "", ""),
          TokenReq("POST", "authorization_code", "", ""),
          [TokenReq("POST", "authorization_code", "invalid-code", "") EXCEPT !.formOK = FALSE],
          TokenReq("GET", "refresh_token", "", "upstream-refresh"),
          TokenReq("PUT", "implicit", "", "")}

NextGrants ==
    \/ \E in \in AuthorizeInputsCore : HandleAuthorize(in)
    \/ \E i \in 1..Len(authz) : AuthorizeRegister(i)
    \/ \E i \in 1..Len(authz) : AuthorizeStore(i)
    \/ \E i \in 1..Len(authz) : AuthorizeRedirect(i)
    \/ \E in \in CallbackInputsSuccess : HandleCallback(in)
    \/ \E i \in 1..Len(cbs) : CallbackCheckTTL(i)
    \/ \E i \in 1..Len(cbs), ok \in BOOLEAN : CallbackExchange(i, ok, "")
    \/ \E in \in TokenInputsGrants, upstreamOK \in BOOLEAN : HandleToken(in, upstreamOK)
    \/ \E i \in 1..Len(toks), v \in Verifiers : TokenVerify(i, v)

SpecGrants == Init /\ [][NextGrants]_vars

-----------------------------------------------------------------------------
(* Credential parsing and loading (SpecCredentials).                       *)

\* A credentials document after json.Unmarshal: whether the bytes are JSON,
\* whether the web and installed members decode into the wrapper struct (they
\* are objects of strings), and the members; a member that is missing decodes
\* to "" as an empty one does.
Document(json, wrapper, webID, webSecret, installedID, installedSecret, flatID, flatSecret) ==
    [json |-> json, wrapper |-> wrapper,
     web |-> [client_id |-> webID, client_secret |-> webSecret],
     installed |-> [client_id |-> installedID, client_secret |-> installedSecret],
     client_id |-> flatID, client_secret |-> flatSecret]

Documents ==
    {Document(json, wrapper, webID, webSecret, installedID, installedSecret, flatID, flatSecret) :
        json \in BOOLEAN, wrapper \in BOOLEAN,
        webID \in {"", "web-id"}, webSecret \in {"", "web-secret"},
        installedID \in {"", "inst-id"}, installedSecret \in {"", "inst-secret"},
        flatID \in {"", "flat-id"}, flatSecret \in {"", "flat-secret"}}

NoCredentials == [ClientID |-> "", ClientSecret |-> ""]

Loaded(clientID, clientSecret) ==
    [err |-> "", creds |-> [ClientID |-> clientID, ClientSecret |-> clientSecret]]

Failed(err) == [err |-> err, creds |-> NoCredentials]

\* parseCredentials: the web member, the installed member, then the flat form
parseCredentials(data) ==
    IF data.json /\ data.wrapper /\ data.web.client_id # ""
    THEN Loaded(data.web.client_id, data.web.client_secret)
    ELSE IF data.json /\ data.wrapper /\ data.installed.client_id # ""
    THEN Loaded(data.installed.client_id, data.installed.client_secret)
    ELSE IF ~data.json
    THEN Failed("parse credentials")
    ELSE IF data.client_id = "" \/ data.client_secret = ""
    THEN Failed("credentials missing client_id or client_secret")
    ELSE Loaded(data.client_id, data.client_secret)

ParseCredentials(data) ==
    /\ call.op = "none"
    /\ call' = [op |-> "parseCredentials", in |-> data, out |-> parseCredentials(data)]
    /\ UNCHANGED <<serverVars, proc, drive>>

\* the documents a source of credentials may hold: a complete flat one named
\* after the source, one that is not JSON, a web one without client_secret
CompleteDocument(source) ==
    Document(TRUE, TRUE, "", "", "", "", source \o "-id", source \o "-secret")

BrokenDocument == Document(FALSE, FALSE, "", "", "", "", "", "")

PartialDocument(source) == Document(TRUE, TRUE, source \o "-id", "", "", "", "", "")

\* a local file: whether os.Stat finds it, whether os.ReadFile reads it, its data
File(exists, readable, data) == [exists |-> exists, readable |-> readable, data |-> data]

FilesAt(path) ==
    {File(FALSE, FALSE, BrokenDocument), File(TRUE, FALSE, BrokenDocument),
     File(TRUE, TRUE, BrokenDocument), File(TRUE, TRUE, CompleteDocument(path))}

\* the secret vault: whether the secret version is returned, its payload
Vaults ==
    {[available |-> FALSE, data |-> BrokenDocument],
     [available |-> TRUE, data |-> BrokenDocument],
     [available |-> TRUE, data |-> PartialDocument("vault")],
     [available |-> TRUE, data |-> CompleteDocument("vault")]}

DefaultPaths == <<"credentials.json", "google_credentials.json">>

\* the flags of the process and what its environment holds
LoadInputs ==
    {[secretName |-> n[1], secretProject |-> n[2], credentialFile |-> f, vault |-> v,
      files |-> [p \in {"custom.json", "credentials.json", "google_credentials.json"} |->
                   CASE p = "custom.json" -> c
                     [] p = "credentials.json" -> d1
                     [] p = "google_credentials.json" -> d2]] :
        n \in {<<"", "">>, <<"oauth-creds", "">>, <<"oauth-creds", "project-1">>},
        f \in {"", "custom.json"}, v \in Vaults,
        c \in FilesAt("custom.json"), d1 \in FilesAt("credentials.json"),
        d2 \in FilesAt("google_credentials.json")}

\* loadFromSecretManager
loadFromSecretManager(vault) ==
    IF ~vault.available THEN Failed("access secret") ELSE parseCredentials(vault.data)

\* loadFromFile
loadFromFile(files, path) ==
    IF ~(files[path].exists /\ files[path].readable)
    THEN Failed("read credential file " \o path)
    ELSE parseCredentials(files[path].data)

\* a Stat that fails on a file that cannot be read
StatReadable(files, path) == files[path].exists /\ files[path].readable

\* os.Stat(path) returns no error
Stat(files, path) == files[path].exists

\* LoadOAuthCredentials
LoadOAuthCredentials(in) ==
    IF in.secretName # "" /\ in.secretProject # ""
          /\ loadFromSecretManager(in.vault).err = ""
    THEN loadFromSecretManager(in.vault)
    ELSE IF in.credentialFile # ""
    THEN loadFromFile(in.files, in.credentialFile)
    ELSE IF Stat(in.files, DefaultPaths[1])
    THEN loadFromFile(in.files, DefaultPaths[1])
    ELSE IF Stat(in.files, DefaultPaths[2])
    THEN loadFromFile(in.files, DefaultPaths[2])
    ELSE Failed("no OAuth credentials found")

LoadCredentials(in) ==
    /\ call.op = "none"
    /\ call' = [op |-> "LoadOAuthCredentials", in |-> in, out |-> LoadOAuthCredentials(in)]
    /\ UNCHANGED <<serverVars, proc, drive>>

NextCredentials ==
    \/ \E data \in Documents : ParseCredentials(data)
    \/ \E in \in LoadInputs : LoadCredentials(in)

SpecCredentials == Init /\ [][NextCredentials]_vars

-----------------------------------------------------------------------------
(* The serving process: Server.Start, its handlers and its shutdown.       *)
(* MCPCmd calls NewServer and returns what Start returns; main returns     *)
(* when the command does, and the process ends with it.                    *)

MaxHandlers == 3

\* the deadline of the context given to httpServer.Shutdown, in seconds
shutdownTimeout == 10

\* Start up to the call of ListenAndServe: the mux is built, the signal
\* goroutine waits on sigChan, the listener opens
Start ==
    /\ proc.start = "idle"
    /\ proc' = [proc EXCEPT !.start = "serving", !.listening = TRUE]
    /\ UNCHANGED <<serverVars, call, drive>>

\* the listener accepts a request and its handler starts running
Accept ==
    /\ proc.listening
    /\ ~proc.exited
    /\ proc.inflight < MaxHandlers
    /\ proc' = [proc EXCEPT !.inflight = @ + 1]
    /\ UNCHANGED <<serverVars, call, drive>>

\* a running handler returns
Complete ==
    /\ proc.inflight > 0
    /\ ~proc.exited
    /\ proc' = [proc EXCEPT !.inflight = @ - 1]
    /\ UNCHANGED <<serverVars, call, drive>>

\* a tools/list request is accepted and answered with the registered tools
ListTools ==
    /\ proc.listening
    /\ ~proc.exited
    /\ proc' = [proc EXCEPT !.listed = proc.tools]
    /\ UNCHANGED <<serverVars, call, drive>>

\* SIGINT or SIGTERM: the signal goroutine wakes and calls
\* httpServer.Shutdown, which closes the listener and starts waiting for the
\* handlers under the deadline
Signal ==
    /\ proc.start = "serving"
    /\ proc.shutdown = "waiting"
    /\ proc' = [proc EXCEPT !.shutdown = "draining", !.listening = FALSE, !.elapsed = 0]
    /\ UNCHANGED <<serverVars, call, drive>>

\* ListenAndServe returns http.ErrServerClosed once Shutdown has been
\* called, and Start returns nil
ListenAndServeReturns ==
    /\ proc.start = "serving"
    /\ proc.shutdown # "waiting"
    /\ proc' = [proc EXCEPT !.start = "returned",
                            !.atReturn = [inflight |-> proc.inflight,
                                          elapsed  |-> proc.elapsed]]
    /\ UNCHANGED <<serverVars, call, drive>>

\* a second passes while Shutdown waits
Second ==
    /\ proc.shutdown = "draining"
    /\ ~proc.exited
    /\ proc.elapsed < shutdownTimeout
    /\ proc' = [proc EXCEPT !.elapsed = @ + 1]
    /\ UNCHANGED <<serverVars, call, drive>>

\* Shutdown returns: nil when no handler is running, the context's error
\* when the deadline has passed
ShutdownReturns ==
    /\ proc.shutdown = "draining"
    /\ ~proc.exited
    /\ \/ /\ proc.inflight = 0
          /\ proc' = [proc EXCEPT !.shutdown = "drained"]
       \/ /\ proc.elapsed >= shutdownTimeout
          /\ proc' = [proc EXCEPT !.shutdown = "deadline"]
    /\ UNCHANGED <<serverVars, call, drive>>

\* RunE, Execute and main return after Start: the process ends, and the
\* goroutines still running end with it
Exit ==
    /\ proc.start = "returned"
    /\ ~proc.exited
    /\ proc' = [proc EXCEPT !.exited = TRUE, !.cut = proc.inflight, !.inflight = 0]
    /\ UNCHANGED <<serverVars, call, drive>>

NextServe ==
    \/ Start
    \/ Accept
    \/ Complete
    \/ ListTools
    \/ Signal
    \/ ListenAndServeReturns
    \/ Second
    \/ ShutdownReturns
    \/ Exit

SpecServe == Init /\ [][NextServe]_vars

-----------------------------------------------------------------------------
(* The drive_activity_history tool and QueryDriveActivity.                 *)

MaxPages == 3

\* the hard cap of the tool
activityCap == 200

\* the default of maxResults
activityDefault == 100

\* the page size QueryDriveActivity asks for at most
activityPageSize == 100

\* an int64 is kept here in the integers the checker has; the only values
\* out of that range are the two a conversion of an out-of-range float gives
MaxInt64 == 2147483647

MinInt64 == -MaxInt64 - 1

\* the maxResults argument as the JSON decoder delivers it: absent, a value
\* that is not a float64, or the float64 num / den (den > 0); huge marks a
\* float64 beyond the range of int64
Arg(present, isFloat, num, den, huge) ==
    [present |-> present, isFloat |-> isFloat, num |-> num, den |-> den, huge |-> huge]

NoArg == Arg(FALSE, FALSE, 0, 1, FALSE)

TextArg == Arg(TRUE, FALSE, 0, 1, FALSE)

Number(num, den) == Arg(TRUE, TRUE, num, den, FALSE)

HugeNumber == Arg(TRUE, TRUE, 1, 1, TRUE)

\* int64(mr) for a positive float64: the fraction is dropped; a value out of
\* range gives an implementation-specific int64 (the smallest on amd64, the
\* largest on arm64), named by overflow
ToInt64(arg, overflow) ==
    IF arg.huge
    THEN IF overflow = "min" THEN MinInt64 ELSE MaxInt64
    ELSE arg.num \div arg.den

\* the maxResults the handler passes to QueryDriveActivity
activityMaxResults(arg, overflow) ==
    LET given == arg.present /\ arg.isFloat /\ (arg.huge \/ arg.num > 0)
        asked == IF given THEN ToInt64(arg, overflow) ELSE activityDefault
    IN  IF asked > activityCap THEN activityCap ELSE asked

\* the page loop of QueryDriveActivity from page i on, n activities collected
\* so far. pages[i] is the number of activities upstream has for page i, of
\* which it returns at most pageSize; the last page carries no NextPageToken;
\* failAt names the page whose query fails for good (0: none). The result is
\* the number of activities returned and the number of pages fetched.
RECURSIVE QueryPages(_, _, _, _, _, _)
QueryPages(maxResults, pageSize, pages, failAt, i, n) ==
    LET served  == IF pages[i] < pageSize THEN pages[i] ELSE pageSize
        limited == maxResults > 0
        needed  == IF maxResults - n > 1 THEN maxResults - n ELSE 1
    IN  IF i = failAt
        THEN [err |-> "unable to query drive activity", items |-> 0, fetched |-> i - 1]
        ELSE IF limited /\ served >= needed
        THEN [err |-> "", items |-> n + needed, fetched |-> i]
        ELSE IF i = Len(pages)
        THEN [err |-> "", items |-> n + served, fetched |-> i]
        ELSE IF limited /\ n + served >= maxResults
        THEN [err |-> "", items |-> n + served, fetched |-> i]
        ELSE QueryPages(maxResults, pageSize, pages, failAt, i + 1, n + served)

QueryDriveActivity(maxResults, pages, failAt) ==
    LET pageSize == IF maxResults > 0 /\ maxResults < activityPageSize
                    THEN maxResults ELSE activityPageSize
    IN  QueryPages(maxResults, pageSize, pages, failAt, 1, 0)

\* the handler of drive_activity_history
activityHistory(in) ==
    LET maxResults == activityMaxResults(in.maxResults, in.overflow)
        queried    == QueryDriveActivity(maxResults, in.pages, in.failAt)
    IN  IF ~in.serviceOK
        THEN [err |-> "authentication failed", items |-> 0, maxResults |-> maxResults, fetched |-> 0]
        ELSE IF queried.err # ""
        THEN [err |-> "query activity failed: " \o queried.err, items |-> 0,
              maxResults |-> maxResults, fetched |-> queried.fetched]
        ELSE [err |-> "", items |-> queried.items, maxResults |-> maxResults,
              fetched |-> queried.fetched]

\* the values of maxResults a caller may send
MaxResultsArgs ==
    {NoArg, TextArg, Number(0, 1), Number(-5, 1), Number(1, 2), Number(1, 1),
     Number(3, 2), Number(150, 1), Number(200, 1), Number(201, 1), Number(250, 1),
     HugeNumber}

\* what upstream has for each page
PageLengths == {0, 60, 100}

RECURSIVE PagesUpTo(_)
PagesUpTo(k) ==
    IF k = 0 THEN {<<>>}
    ELSE PagesUpTo(k - 1) \cup {Append(p, l) : p \in {q \in PagesUpTo(k - 1) : Len(q) = k - 1},
                                                l \in PageLengths}

ActivityInputs ==
    [maxResults : MaxResultsArgs,
     overflow   : {"min", "max"},
     pages      : PagesUpTo(MaxPages) \ {<<>>},
     failAt     : {0, 2},
     serviceOK  : BOOLEAN]

ActivityHistory(in) ==
    /\ call.op = "none"
    /\ call' = [op |-> "drive_activity_history", in |-> in, out |-> activityHistory(in)]
    /\ UNCHANGED <<serverVars, proc, drive>>

NextActivity == \E in \in ActivityInputs : ActivityHistory(in)

SpecActivity == Init /\ [][NextActivity]_vars

-----------------------------------------------------------------------------
(* The drive_delete tool.                                                  *)

MaxDeletes == 2

\* the file ids a caller may send: the two files and one upstream does not have
DeleteFileIds == {"f1", "f2", "f0"}

\* Files.Delete: the file is gone for good
FilesDelete(files, fileId) == [f \in DOMAIN files \ {fileId} |-> files[f]]

\* Files.Update(fileID, &File{Trashed: true})
FilesUpdateTrashed(files, fileId) == [files EXCEPT ![fileId].trashed = TRUE]

\* a drive_delete request arrives and its handler starts. serviceOK, getOK and
\* updateOK say whether getDriveService, Files.Get and Files.Update will
\* succeed for it; trashedAtStart records what upstream holds at this moment.
DeleteCall(fileId, serviceOK, getOK, updateOK) ==
    /\ Len(drive.dels) < MaxDeletes
    /\ drive' = [drive EXCEPT !.dels = Append(@,
                   [fileId |-> fileId, serviceOK |-> serviceOK, getOK |-> getOK,
                    updateOK |-> updateOK, pc |-> "get",
                    trashedAtStart |-> fileId \in DOMAIN drive.files
                                           /\ drive.files[fileId].trashed])]
    /\ UNCHANGED <<serverVars, call, proc>>

DeleteAnswer(i, out) ==
    [drive EXCEPT !.dels = RemoveAt(@, i), !.lastDel = [in |-> drive.dels[i], out |-> out]]

\* the handler up to the check of file.Trashed
DeleteGet(i) ==
    /\ i \in 1..Len(drive.dels)
    /\ drive.dels[i].pc = "get"
    /\ LET in == drive.dels[i]
       IN  IF ~in.serviceOK
           THEN drive' = DeleteAnswer(i, DeleteResult("authentication failed", "", "", "", 0))
           ELSE IF ~in.getOK \/ in.fileId \notin DOMAIN drive.files
           THEN drive' = DeleteAnswer(i, DeleteResult("file not found", "", "", "", 0))
           ELSE IF drive.files[in.fileId].trashed
           THEN drive' = DeleteAnswer(i, DeleteResult("", in.fileId, drive.files[in.fileId].name,
                                                      "File is already in trash", 0))
           ELSE drive' = [drive EXCEPT !.dels[i].pc = "update"]
    /\ UNCHANGED <<serverVars, call, proc>>

\* the rest of the handler: the soft delete and the answer
DeleteUpdate(i) ==
    /\ i \in 1..Len(drive.dels)
    /\ drive.dels[i].pc = "update"
    /\ LET in == drive.dels[i]
       IN  IF ~in.updateOK
           THEN drive' = DeleteAnswer(i, DeleteResult("trash file failed", "", "", "", 1))
           ELSE drive' = [DeleteAnswer(i, DeleteResult("", in.fileId, drive.files[in.fileId].name,
                                                       "File moved to trash", 1))
                              EXCEPT !.files = FilesUpdateTrashed(drive.files, in.fileId)]
    /\ UNCHANGED <<serverVars, call, proc>>

\* whether getDriveService, Files.Get and Files.Update succeed for a request:
\* at most one of them fails
DeleteOutcomes ==
    {<<TRUE, TRUE, TRUE>>, <<FALSE, TRUE, TRUE>>, <<TRUE, FALSE, TRUE>>, <<TRUE, TRUE, FALSE>>}

NextDelete ==
    \/ \E fileId \in DeleteFileIds, ok \in DeleteOutcomes :
           DeleteCall(fileId, ok[1], ok[2], ok[3])
    \/ \E i \in 1..MaxDeletes : DeleteGet(i)
    \/ \E i \in 1..MaxDeletes : DeleteUpdate(i)

SpecDelete == Init /\ [][NextDelete]_vars

-----------------------------------------------------------------------------
(* drive_download_url and drive_export_url on one file (SpecURL).          *)

\* the MIME types upstream may report: the Google types of
\* IsGoogleWorkspaceFile, other Google types, ordinary types, none
MimeTypes ==
    {"application/vnd.google-apps.document",
     "application/vnd.google-apps.spreadsheet",
     "application/vnd.google-apps.presentation",
     "application/vnd.google-apps.form",
     "application/vnd.google-apps.drawing",
     "application/vnd.google-apps.map",
     "application/vnd.google-apps.site",
     "application/vnd.google-apps.folder",
     "application/vnd.google-apps.shortcut",
     "application/pdf",
     "text/plain",
     ""}

ExportFormatArgs == {"pdf", "docx", "csv", "zip", ""}

\* the contexts of a handler: without and with the token of a bearer
UrlContexts == {<<>>, httpContextFunc(<<>>, "Bearer tok-A")}

NoResult == ToolResult("none", "")

\* Files.Get returns the file both tools are asked about
UrlFile(mimeType, format, ctx) ==
    /\ call.op = "none"
    /\ call' = [op  |-> "url",
                in  |-> [file   |-> [found |-> TRUE, id |-> "f1", name |-> "report",
                                     mimeType |-> mimeType],
                         format |-> format, ctx |-> ctx],
                out |-> [download |-> NoResult, export |-> NoResult]]
    /\ UNCHANGED <<serverVars, proc, drive>>

\* drive_download_url on the file
DownloadUrlCall ==
    /\ call.op = "url"
    /\ call.out.download = NoResult
    /\ call' = [call EXCEPT !.out.download = DownloadURL(call.in.ctx, call.in.file.id, call.in.file)]
    /\ UNCHANGED <<serverVars, proc, drive>>

\* drive_export_url on the file
ExportUrlCall ==
    /\ call.op = "url"
    /\ call.out.export = NoResult
    /\ call' = [call EXCEPT !.out.export = ExportURL(call.in.ctx, call.in.file.id,
                                                     call.in.format, call.in.file)]
    /\ UNCHANGED <<serverVars, proc, drive>>

NextURL ==
    \/ \E mimeType \in MimeTypes, format \in ExportFormatArgs, ctx \in UrlContexts :
           UrlFile(mimeType, format, ctx)
    \/ DownloadUrlCall
    \/ ExportUrlCall

SpecURL == Init /\ [][NextURL]_vars

-----------------------------------------------------------------------------
(* The drive_folder_list tool and Service.ListFolder.                      *)

MaxItems == 3

Item(id, name, mimeType) == [id |-> id, name |-> name, mimeType |-> mimeType]

\* the items a folder may hold upstream
FolderItems ==
    {Item("d1", "alpha", "application/vnd.google-apps.folder"),
     Item("d2", "beta", "application/vnd.google-apps.folder"),
     Item("f1", "apple.txt", "text/plain"),
     Item("f2", "cherry.pdf", "application/pdf"),
     Item("f3", "beta", "application/vnd.google-apps.document")}

\* what Files.List may answer: Q and Fields are set but no OrderBy, so the
\* items of the folder come in the order upstream chooses
RECURSIVE Listings(_)
Listings(k) ==
    IF k = 0 THEN {<<>>}
    ELSE Listings(k - 1)
           \cup {Append(l, it) : l \in {m \in Listings(k - 1) : Len(m) = k - 1},
                                 it \in FolderItems}

FolderListings ==
    {l \in Listings(MaxItems) : \A i, j \in 1..Len(l) : i # j => l[i].id # l[j].id}

IsFolder(item) == item.mimeType = "application/vnd.google-apps.folder"

\* ListFolder: fileList.Files as Files.List returned it
ListFolder(listing, listOK) ==
    IF listOK THEN [err |-> "", files |-> listing] ELSE [err |-> "googleapi: Error", files |-> <<>>]

\* the handler of drive_folder_list
folderList(in) ==
    LET listed == ListFolder(in.listing, in.listOK) IN
    IF ~in.serviceOK
    THEN [err |-> "authentication failed", results |-> <<>>]
    ELSE IF listed.err # ""
    THEN [err |-> "list folder failed: " \o listed.err, results |-> <<>>]
    ELSE [err |-> "",
          results |-> [i \in 1..Len(listed.files) |->
                          [id |-> listed.files[i].id, name |-> listed.files[i].name,
                           mimeType |-> listed.files[i].mimeType]]]

FolderListInputs ==
    {[listing |-> l, listOK |-> ok[1], serviceOK |-> ok[2]] :
        l \in FolderListings, ok \in {<<TRUE, TRUE>>, <<FALSE, TRUE>>, <<TRUE, FALSE>>}}

FolderList(in) ==
    /\ call.op = "none"
    /\ call' = [op |-> "drive_folder_list", in |-> in, out |-> folderList(in)]
    /\ UNCHANGED <<serverVars, proc, drive>>

NextFolderList == \E in \in FolderListInputs : FolderList(in)

SpecFolderList == Init /\ [][NextFolderList]_vars

-----------------------------------------------------------------------------
(* The required arguments of the tools and what the handlers do first.     *)

\* the arguments each tool declares with mcp.Required()
RequiredArgs ==
    [tool \in (RegisterReadTools({}) \cup RegisterWriteTools({}))
                 \ {"drive_activity_changes", "drive_activity_deleted", "drive_activity_history"} |->
        CASE tool = "drive_search"             -> <<"query">>
          [] tool = "drive_folder_list"        -> <<"folderId">>
          [] tool = "drive_export_url"         -> <<"fileId", "format">>
          [] tool = "drive_rename"             -> <<"fileId", "newName">>
          [] tool = "drive_move"               -> <<"fileId", "targetFolderId">>
          [] tool = "drive_copy"               -> <<"fileId", "targetFolderId">>
          [] tool = "drive_folder_create"      -> <<"parentFolderId", "name">>
          [] tool = "drive_permissions_update" -> <<"fileId", "action">>
          [] tool = "drive_create_upload_url"  -> <<"fileName", "folderId">>
          [] OTHER                             -> <<"fileId">>]

\* the arguments a handler compares with "" before it calls getDriveService
EntryChecks ==
    [tool \in DOMAIN RequiredArgs |->
        CASE tool = "drive_rename"        -> <<"newName">>
          [] tool = "drive_folder_create" -> <<"name">>
          [] OTHER                        -> <<>>]

\* an argument as the request carries it: missing, or a string
ArgValues == {[present |-> FALSE, value |-> ""], [present |-> TRUE, value |-> ""],
              [present |-> TRUE, value |-> "x"]}

\* v, _ := req.GetArguments()[field].(string)
StringArg(args, field) ==
    IF field \in DOMAIN args /\ args[field].present THEN args[field].value ELSE ""

\* what a handler did: its error, whether it called getDriveService, whether
\* it called the upstream API
Handled(err, authenticated, upstream) ==
    [err |-> err, authenticated |-> authenticated, upstream |-> upstream]

\* the first entry check that fails, 0 if none
FailedEntryCheck(tool, args) ==
    LET failing == {i \in 1..Len(EntryChecks[tool]) : StringArg(args, EntryChecks[tool][i]) = ""}
    IN  IF failing = {} THEN 0 ELSE CHOOSE i \in failing : \A j \in failing : i <= j

\* a handler: the entry checks, getDriveService, (drive_permissions_update:
\* the switch on action, here with the arguments of a valid add), upstream
toolHandler(in) ==
    LET failed == FailedEntryCheck(in.tool, in.args) IN
    IF failed # 0
    THEN Handled(EntryChecks[in.tool][failed] \o " is required", FALSE, FALSE)
    ELSE IF ~in.serviceOK
    THEN Handled("authentication failed", TRUE, FALSE)
    ELSE IF in.tool = "drive_permissions_update"
              /\ StringArg(in.args, "action") \notin {"add", "remove"}
    THEN Handled("action must be 'add' or 'remove'", TRUE, FALSE)
    ELSE IF ~in.upstreamOK
    THEN Handled("googleapi: Error", TRUE, TRUE)
    ELSE Handled("", TRUE, TRUE)

ToolInputs ==
    UNION {[tool : {tool}, args : [{RequiredArgs[tool][i] : i \in 1..Len(RequiredArgs[tool])} -> ArgValues],
            serviceOK : BOOLEAN, upstreamOK : BOOLEAN] : tool \in DOMAIN RequiredArgs}

ToolCall(in) ==
    /\ call.op = "none"
    /\ call' = [op |-> "tool", in |-> in, out |-> toolHandler(in)]
    /\ UNCHANGED <<serverVars, proc, drive>>

NextTools == \E in \in ToolInputs : ToolCall(in)

SpecTools == Init /\ [][NextTools]_vars

-----------------------------------------------------------------------------
(* The drive_activity_changes tool and Service.ListChanges.                *)

MaxChanges == 2

\* a change of the upstream feed: the file object is absent (hasFile FALSE)
\* or carries a name and a modifiedTime, which may be empty
Change(removed, hasFile, modifiedTime) ==
    [fileId |-> "f1", removed |-> removed, hasFile |-> hasFile,
     file |-> [name |-> IF hasFile THEN "report" ELSE "", modifiedTime |-> modifiedTime]]

Changes ==
    {Change(removed, TRUE, t) : removed \in BOOLEAN, t \in {"", "2024-01-01T00:00:00Z"}}
        \cup {Change(removed, FALSE, "") : removed \in BOOLEAN}

RECURSIVE ChangeLists(_)
ChangeLists(k) ==
    IF k = 0 THEN {<<>>}
    ELSE ChangeLists(k - 1)
           \cup {Append(l, c) : l \in {m \in ChangeLists(k - 1) : Len(m) = k - 1}, c \in Changes}

\* the ChangeInfo ListChanges builds for one change
changeInfo(change) ==
    [FileID     |-> change.fileId,
     Removed    |-> change.removed,
     FileName   |-> IF change.hasFile THEN change.file.name ELSE "",
     ChangeType |-> IF ~change.hasFile THEN ""
                    ELSE IF change.removed THEN "Removed"
                    ELSE IF change.file.modifiedTime # "" THEN "Modified"
                    ELSE "Added"]

\* ListChanges: the start page token, the list, one ChangeInfo per change
ListChanges(in) ==
    IF ~in.tokenOK THEN [err |-> "unable to get start page token", changes |-> <<>>]
    ELSE IF ~in.listOK THEN [err |-> "unable to list changes", changes |-> <<>>]
    ELSE [err |-> "", changes |-> [i \in 1..Len(in.feed) |-> changeInfo(in.feed[i])]]

\* the handler of drive_activity_changes, after getDriveService
activityChanges(in) ==
    LET listed == ListChanges(in) IN
    IF listed.err # ""
    THEN [err |-> "list changes failed: " \o listed.err, results |-> <<>>]
    ELSE [err |-> "",
          results |-> [i \in 1..Len(listed.changes) |->
                          [fileId     |-> listed.changes[i].FileID,
                           fileName   |-> listed.changes[i].FileName,
                           changeType |-> listed.changes[i].ChangeType]]]

ActivityChanges(in) ==
    /\ call.op = "none"
    /\ call' = [op |-> "drive_activity_changes", in |-> in, out |-> activityChanges(in)]
    /\ UNCHANGED <<serverVars, proc, drive>>

NextChanges ==
    \E feed \in ChangeLists(MaxChanges),
       ok \in {<<TRUE, TRUE>>, <<FALSE, TRUE>>, <<TRUE, FALSE>>} :
        ActivityChanges([feed |-> feed, tokenOK |-> ok[1], listOK |-> ok[2]])

SpecChanges == Init /\ [][NextChanges]_vars

-----------------------------------------------------------------------------
(* Authorize and callback requests running together on the one upstream    *)
(* OAuth config (SpecConfig): authorizations overlap with one another and  *)
(* with the callbacks of the authorizations already redirected.            *)

MaxConfigAuthorize == 2

NextConfig ==
    \/ \E in \in AuthorizeInputsCore : HandleAuthorizeUpTo(in, MaxConfigAuthorize)
    \/ \E i \in 1..Len(authz) : AuthorizeRegister(i)
    \/ \E i \in 1..Len(authz) : AuthorizeStore(i)
    \/ \E i \in 1..Len(authz) : AuthorizeRedirect(i)
    \/ \E in \in CallbackInputsSuccess : HandleCallback(in)
    \/ \E i \in 1..Len(cbs) : CallbackCheckTTL(i)
    \/ \E i \in 1..Len(cbs), ok \in BOOLEAN : CallbackExchange(i, ok, "")

SpecConfig == Init /\ [][NextConfig]_vars

-----------------------------------------------------------------------------
(* QueryDriveActivity step by step (SpecQuery): every request of a page,   *)
(* every wait before a retry, and what upstream answers to each request.   *)
(* The record of a query holds the size asked for in its requests (sizes), *)
(* whether the last page had a next page token (hasNext), the number of    *)
(* activities upstream has served (offset) and whether a request failed.   *)
(* Upstream holds the activities 1..available in its order and serves them *)
(* in pages; the page token is the number of activities served so far.     *)
(* Every request returns (with a page or an error) and every sleep ends.   *)

MaxAvailable == 3

maxRetries == 3

baseDelay == 2

maxPagesPerBatch == 90

batchPause == 60

\* what err.Error() of a failed request may read
QueryErrors ==
    {"googleapi: Error 429: Too Many Requests",
     "googleapi: Error 403: Rate limit, rateLimitExceeded",
     "googleapi: Error 403: User rate limit, userRateLimitExceeded",
     "googleapi: Error 500: Internal error, backendError"}

\* line 241: the error is taken for a rate limit
IsRateLimit(err) == Contains(err, "429") \/ Contains(err, "rateLimitExceeded")

\* a wait that grows by baseDelay with every retry
backoffLinear(retry) == baseDelay * (retry + 1)

\* line 244: baseDelay * time.Duration(1<<uint(retry))
backoff(retry) == baseDelay * (2 ^ retry)

\* the API maximum whatever is asked for
PageSizeMax(maxResults) == activityPageSize

\* lines 202-205
PageSize(maxResults) ==
    IF maxResults > 0 /\ maxResults < activityPageSize THEN maxResults ELSE activityPageSize

\* the activities a+1..b in upstream order
Ids(a, b) == [i \in 1..(b - a) |-> a + i]

\* the values of maxResults the query is called with (0: no limit)
QueryMaxResults == {0, 1, 2, 150}

\* lines 200-225: the request is built, nothing is fetched yet
QueryStart(maxResults, available) ==
    /\ call.op = "none"
    /\ call' = [op |-> "activity_query",
                in |-> [maxResults |-> maxResults, available |-> available],
                out |-> [pc |-> "query", pageSize |-> PageSize(maxResults),
                         offset |-> 0, pageCount |-> 0, retry |-> 0, attempts |-> 0,
                         waits |-> <<>>, slept |-> 0, lastErr |-> "", failed |-> FALSE,
                         hasNext |-> TRUE, sizes |-> {}, activities |-> <<>>,
                         err |-> ""]]
    /\ UNCHANGED <<serverVars, proc, drive>>

\* lines 235-251: a request fails with err
QueryFailed(err) ==
    LET q == call.out IN
    IF IsRateLimit(err) /\ q.retry < maxRetries
    THEN [q EXCEPT !.pc = "sleep", !.attempts = @ + 1, !.lastErr = err, !.failed = TRUE,
                   !.sizes = @ \cup {q.pageSize}]
    ELSE [q EXCEPT !.pc = "done", !.attempts = @ + 1, !.lastErr = err, !.failed = TRUE,
                   !.sizes = @ \cup {q.pageSize},
                   !.activities = <<>>,
                   !.err = "unable to query drive activity: " \o err]

\* lines 235-238, 253-343: a request returns the next k activities, with a
\* next page token or without; the activities are appended one by one and the
\* query returns inside the page once maxResults of them are held
QueryPage(k, more) ==
    LET q          == call.out
        maxResults == call.in.maxResults
        held       == Len(q.activities)
        pageCount  == q.pageCount + 1
        pause      == IF pageCount % maxPagesPerBatch = 0 THEN batchPause ELSE 0
        needed     == IF maxResults - held > 1 THEN maxResults - held ELSE 1
        arrived    == [q EXCEPT !.attempts = @ + 1, !.lastErr = "",
                                !.sizes = @ \cup {q.pageSize},
                                !.pageCount = pageCount, !.slept = @ + pause,
                                !.offset = @ + k, !.hasNext = more]
    IN  IF maxResults > 0 /\ k >= needed
        THEN [arrived EXCEPT !.pc = "done",
                             !.activities = @ \o Ids(q.offset, q.offset + needed)]
        ELSE IF ~more
        THEN [arrived EXCEPT !.pc = "done",
                             !.activities = @ \o Ids(q.offset, q.offset + k)]
        ELSE IF maxResults > 0 /\ held + k >= maxResults
        THEN [arrived EXCEPT !.pc = "done",
                             !.activities = @ \o Ids(q.offset, q.offset + k)]
        ELSE [arrived EXCEPT !.activities = @ \o Ids(q.offset, q.offset + k),
                             !.retry = 0, !.attempts = 0, !.waits = <<>>]

\* activityService.Activity.Query(req).Do() fails
QueryAttemptFails(err) ==
    /\ call.op = "activity_query"
    /\ call.out.pc = "query"
    /\ call' = [call EXCEPT !.out = QueryFailed(err)]
    /\ UNCHANGED <<serverVars, proc, drive>>

\* activityService.Activity.Query(req).Do() returns a page: at most pageSize
\* of the activities not served yet and at least one of them while there are
\* any; the page has a next page token while activities are left, and may
\* have one when its last activities are the last upstream has
QueryAttemptReturns(k, more) ==
    /\ call.op = "activity_query"
    /\ call.out.pc = "query"
    /\ LET left == call.in.available - call.out.offset IN
        /\ k <= left
        /\ k <= call.out.pageSize
        /\ left > 0 => k > 0
        /\ k < left => more
        /\ k = 0 => ~more
    /\ call' = [call EXCEPT !.out = QueryPage(k, more)]
    /\ UNCHANGED <<serverVars, proc, drive>>

\* lines 244-247: time.Sleep(delay); continue
QuerySleep ==
    /\ call.op = "activity_query"
    /\ call.out.pc = "sleep"
    /\ LET delay == backoff(call.out.retry) IN
        call' = [call EXCEPT !.out.pc = "query", !.out.retry = @ + 1,
                             !.out.waits = Append(@, delay), !.out.slept = @ + delay]
    /\ UNCHANGED <<serverVars, proc, drive>>

QueryAttempt ==
    \/ \E err \in QueryErrors : QueryAttemptFails(err)
    \/ \E k \in 0..MaxAvailable, more \in BOOLEAN : QueryAttemptReturns(k, more)

NextQuery ==
    \/ \E maxResults \in QueryMaxResults, available \in 0..MaxAvailable :
            QueryStart(maxResults, available)
    \/ \E err \in QueryErrors : QueryAttemptFails(err)
    \/ \E k \in 0..MaxAvailable, more \in BOOLEAN : QueryAttemptReturns(k, more)
    \/ QuerySleep

SpecQuery == Init /\ [][NextQuery]_vars /\ WF_vars(QueryAttempt) /\ WF_vars(QuerySleep)

-----------------------------------------------------------------------------
(* The drive_file_info tool and the path it reconstructs (SpecPath).       *)
(* Upstream holds a chain of folders f1 (the target), f2, ... up to the    *)
(* topmost one, which has no parents; a node may have a second parent, the *)
(* folder "x"; any node may carry a sharedWithMeTime.                      *)

MaxDepth == 3

PathComponent(id, name, mimeType) == [ID |-> id, Name |-> name, MimeType |-> mimeType]

NodeId(i) == "f" \o ToString(i)

NodeName(i) == "name" \o ToString(i)

NodeMime(i) == IF i = 1 THEN "text/plain" ELSE "application/vnd.google-apps.folder"

\* the chain of depth nodes, those of twoParents with "x" as second parent,
\* those of shared with a sharedWithMeTime
Chain(depth, twoParents, shared) ==
    LET node(i) ==
            [id |-> NodeId(i), name |-> NodeName(i), mimeType |-> NodeMime(i),
             parents |-> IF i = depth THEN <<>>
                         ELSE IF i \in twoParents THEN <<NodeId(i + 1), "x">>
                         ELSE <<NodeId(i + 1)>>,
             sharedWithMeTime |-> IF i \in shared THEN "2024-05-01T10:00:00Z" ELSE ""]
        other == [id |-> "x", name |-> "other", mimeType |-> NodeMime(2),
                  parents |-> <<>>,
                  sharedWithMeTime |-> IF depth \in shared THEN "" ELSE "2024-05-01T10:00:00Z"]
    IN  [id \in {NodeId(i) : i \in 1..depth} \cup {"x"} |->
            IF id = "x" THEN other ELSE node(CHOOSE i \in 1..depth : NodeId(i) = id)]

\* the last of the parents
ParentLast(file) == file.parents[Len(file.parents)]

\* line 503: currentID = file.Parents[0]
Parent(file) == file.parents[1]

\* lines 482-526: the loop of GetFilePath from currentID on, with the path
\* gathered so far; fetched counts the Files.Get calls made, and the call
\* number failAt fails (0: none does)
RECURSIVE PathFrom(_, _, _, _, _)
PathFrom(files, currentID, path, fetched, failAt) ==
    IF currentID = "" THEN path
    ELSE IF fetched + 1 = failAt \/ currentID \notin DOMAIN files THEN path
    ELSE LET file == files[currentID]
             gathered == <<PathComponent(file.id, file.name, file.mimeType)>> \o path
         IN  IF Len(file.parents) > 0
             THEN PathFrom(files, Parent(file), gathered, fetched + 1, failAt)
             ELSE IF file.sharedWithMeTime # ""
             THEN <<PathComponent("shared", "Shared with me", "special")>> \o gathered
             ELSE <<PathComponent("root", "My Drive", "special")>> \o gathered

\* GetFilePath: the path and a nil error, always
GetFilePath(files, fileID, failAt) ==
    [path |-> PathFrom(files, fileID, <<>>, 0, failAt), err |-> ""]

\* GetFileInfo (lines 541-563): the metadata fetch, then the path, whose error
\* is dropped
GetFileInfo(files, fileID, getOK, failAt) ==
    IF ~getOK \/ fileID \notin DOMAIN files
    THEN [err |-> "googleapi: Error 404: File not found", ID |-> "", Name |-> "",
          MimeType |-> "", Path |-> <<>>]
    ELSE [err |-> "", ID |-> files[fileID].id, Name |-> files[fileID].name,
          MimeType |-> files[fileID].mimeType,
          Path |-> GetFilePath(files, fileID, failAt).path]

\* the handler of drive_file_info (tools.go 181-224)
fileInfo(in) ==
    LET files == Chain(in.depth, in.twoParents, in.shared)
        info  == GetFileInfo(files, in.fileId, in.getOK, in.failAt)
        none  == [err |-> "", id |-> "", name |-> "", path |-> <<>>, components |-> <<>>]
    IN  IF ~in.serviceOK
        THEN [none EXCEPT !.err = "authentication failed"]
        ELSE IF info.err # ""
        THEN [none EXCEPT !.err = "get file info failed: " \o info.err]
        ELSE [err |-> "", id |-> info.ID, name |-> info.Name,
              path |-> [i \in 1..Len(info.Path) |-> info.Path[i].Name],
              components |-> info.Path]

FileInfoInputs ==
    {in \in [depth      : 1..MaxDepth,
             twoParents : SUBSET (1..(MaxDepth - 1)),
             shared     : SUBSET {1, MaxDepth - 1, MaxDepth},
             fileId     : {"f1", "f0"},
             failAt     : 0..MaxDepth,
             getOK      : BOOLEAN,
             serviceOK  : BOOLEAN] :
        /\ in.twoParents \subseteq 1..(in.depth - 1)
        /\ in.shared \subseteq 1..in.depth
        /\ in.failAt <= in.depth
        /\ (~in.serviceOK \/ ~in.getOK \/ in.fileId = "f0")
              => (in.failAt = 0 /\ in.twoParents = {} /\ in.shared = {})}

FileInfo(in) ==
    /\ call.op = "none"
    /\ call' = [op |-> "drive_file_info", in |-> in, out |-> fileInfo(in)]
    /\ UNCHANGED <<serverVars, proc, drive>>

NextPath == \E in \in FileInfoInputs : FileInfo(in)

SpecPath == Init /\ [][NextPath]_vars

-----------------------------------------------------------------------------
(* The drive_create_upload_url tool (SpecUpload): the probe of the target  *)
(* folder for a file of the same name, and the URL made from its answer.   *)
(* The mimeType argument only goes into detectedMimeType of the answer,    *)
(* which is left out here.                                                 *)

MaxFolder == 2

DriveFile(id, name, parent, trashed) ==
    [id |-> id, name |-> name, parent |-> parent, trashed |-> trashed]

\* the files upstream may hold: the one the probe is for, one of its name in
\* the trash, one of another name, and one of its name in another folder
UploadCandidates ==
    {DriveFile("f1", "report.pdf", "dir", FALSE),
     DriveFile("f2", "report.pdf", "dir", TRUE),
     DriveFile("f3", "notes.txt", "dir", FALSE),
     DriveFile("f4", "report.pdf", "elsewhere", FALSE)}

\* the files of upstream in the order it lists them
RECURSIVE UploadFolders(_)
UploadFolders(k) ==
    IF k = 0 THEN {<<>>}
    ELSE LET shorter == UploadFolders(k - 1) IN
         shorter \cup {Append(s, f) : s \in {t \in shorter : Len(t) = k - 1},
                                      f \in UploadCandidates}

Distinct(s) == \A i, j \in 1..Len(s) : i # j => s[i] # s[j]

\* FindItemByName with mimeType "" (service.go 109-126): Files.List with
\* name = '...' and '...' in parents and trashed = false; an error of the
\* call is returned, else the first file listed, or nil
FindItemByName(files, name, parentID, listOK) ==
    LET matches == SelectSeq(files, LAMBDA f : f.name = name /\ f.parent = parentID
                                                  /\ ~f.trashed)
    IN  IF ~listOK THEN [file |-> NoFile, err |-> "googleapi: Error 500: backendError"]
        ELSE IF Len(matches) = 0 THEN [file |-> NoFile, err |-> ""]
        ELSE [file |-> [found |-> TRUE, id |-> matches[1].id, name |-> matches[1].name,
                        mimeType |-> ""],
              err |-> ""]

\* FindFile (service.go 189-191)
FindFile(files, filename, parentID, listOK) == FindItemByName(files, filename, parentID, listOK)

\* the handler of drive_create_upload_url (tools.go 868-912): the error of
\* FindFile is dropped (existing, _ :=)
createUploadURL(in) ==
    LET srv      == getDriveService(in.ctx, in.filesOK)
        existing == FindFile(in.files, in.fileName, in.folderId, in.listOK).file
        isUpdate == existing.found
        made     == CreateUploadURL(in.ctx, existing)
    IN  IF srv.err # ""
        THEN [err |-> srv.err, uploadUrl |-> "", fileId |-> "", isUpdate |-> FALSE]
        ELSE IF made.err # ""
        THEN [err |-> made.err, uploadUrl |-> "", fileId |-> "", isUpdate |-> FALSE]
        ELSE [err |-> "", uploadUrl |-> made.url,
              fileId |-> IF isUpdate THEN existing.id ELSE "", isUpdate |-> isUpdate]

UploadInputs ==
    [files    : {s \in UploadFolders(MaxFolder) : Distinct(s)},
     fileName : {"report.pdf", "new.bin"},
     folderId : {"dir"},
     listOK   : BOOLEAN,
     ctx      : UrlContexts,
     filesOK  : BOOLEAN]

CreateUploadUrlCall(in) ==
    /\ call.op = "none"
    /\ call' = [op |-> "drive_create_upload_url", in |-> in, out |-> createUploadURL(in)]
    /\ UNCHANGED <<serverVars, proc, drive>>

NextUpload == \E in \in UploadInputs : CreateUploadUrlCall(in)

SpecUpload == Init /\ [][NextUpload]_vars

-----------------------------------------------------------------------------
(* Properties of the authorization server (Spec).                          *)

\* the token requests that quote a code the server minted
IsExchange(a) ==
    /\ a.kind = "token"
    /\ a.in.method = "POST"
    /\ a.in.grant_type = "authorization_code"
    /\ a.in.code \in IssuedCodes

\* C1: for every authorization code, whatever the interleaving of the token
\* requests that quote it, at most one of them receives tokens, and every
\* answer to such a request is either the tokens or 400 invalid_grant.
TokenSingleUse ==
    /\ \A c \in IssuedCodes : Count(hist.granted, c) <= 1
    /\ IsExchange(last) =>
          \/ last.resp.status = 200
          \/ last.resp.status = 400 /\ last.resp.error = "invalid_grant"

\* a request quoting a code is refused while the request that took the code out
\* of the map is still being processed
TokenSingleUseWitness ==
    /\ IsExchange(last)
    /\ last.resp.status = 400
    /\ last.resp.error = "invalid_grant"
    /\ \E i \in 1..Len(toks) : toks[i].in.code = last.in.code

\* the callbacks that quote a state the server issued
QuotesIssuedState(a) == a.kind = "callback" /\ a.in.state \in IssuedStates

MintedFor(s) == IF s \in DOMAIN hist.codeOf THEN hist.codeOf[s] ELSE {}

InvalidState(resp) ==
    /\ resp.status = 400
    /\ resp.error = "invalid_request"
    /\ resp.desc = "Invalid or expired state"

\* C2 as stated: for every internal state at most one callback finds it in
\* the map, at most one code is minted for it, and every other callback that
\* quotes it is answered 400 invalid_request "Invalid or expired state".
CallbackSingleUseAsStated ==
    /\ \A s \in IssuedStates : Count(hist.observed, s) <= 1 /\ Cardinality(MintedFor(s)) <= 1
    /\ (QuotesIssuedState(last) /\ last.stored = NoEntry) => InvalidState(last.resp)

\* C2: for every internal state at most one callback finds it in the map and
\* at most one code is minted for it; every other callback that quotes it and
\* carries a code and no error parameter is answered 400 invalid_request
\* "Invalid or expired state".
CallbackSingleUse ==
    /\ \A s \in IssuedStates : Count(hist.observed, s) <= 1 /\ Cardinality(MintedFor(s)) <= 1
    /\ (QuotesIssuedState(last) /\ last.stored = NoEntry
            /\ last.in.error = "" /\ last.in.code # "")
          => InvalidState(last.resp)

\* a callback quoting a state is refused while the callback that took the state
\* out of the map is still being processed
CallbackSingleUseWitness ==
    /\ QuotesIssuedState(last)
    /\ last.stored = NoEntry
    /\ last.in.error = "" /\ last.in.code # ""
    /\ InvalidState(last.resp)
    /\ \E i \in 1..Len(cbs) : cbs[i].in.state = last.in.state

\* C3: a token request receives tokens only for a code it found in the map
\* and took out of it, and whose age at the request's TTL check is at most
\* codeTTL; a callback mints a code only for a state it found in the map and
\* whose age at the request's TTL check is at most stateTTL. The sweeper and
\* the clock move freely between the steps of the requests.
NoGrantAfterTTL ==
    /\ (IsExchange(last) /\ last.resp.status = 200) =>
          /\ last.stored # NoEntry
          /\ last.checkedAt - last.stored.CreatedAt <= codeTTL
          /\ last.in.code \notin DOMAIN codes
    /\ (last.kind = "callback" /\ last.token # "") =>
          /\ last.stored # NoEntry
          /\ last.checkedAt - last.stored.CreatedAt <= stateTTL
    /\ \A i \in 1..Len(cbs) :
          cbs[i].pc = "exchange" => cbs[i].checkedAt - cbs[i].stored.CreatedAt <= stateTTL

\* a token request finds in the map a code older than codeTTL (the sweeper has
\* not passed) and is refused
NoGrantAfterTTLWitness ==
    /\ IsExchange(last)
    /\ last.stored # NoEntry
    /\ last.checkedAt - last.stored.CreatedAt > codeTTL
    /\ last.resp.status = 400
    /\ last.resp.error = "invalid_grant"

\* C6: once a callback has reported an upstream error for a state, no later
\* callback quoting that state mints a code; and a code that was consumed or
\* swept yields no tokens.
DeniedIsTerminal ==
    /\ (last.kind = "callback" /\ last.afterDenial) => last.token = ""
    /\ (IsExchange(last) /\ last.stored = NoEntry) => last.resp.status # 200

-----------------------------------------------------------------------------
(* Properties of PKCE (SpecPKCE).                                          *)

\* the authorize request that led to code c
AuthorizeRequestOf(c) == hist.authReq[hist.stateOf[c]]

\* the token requests that found their code in the map
FoundCode(a) == IsExchange(a) /\ a.stored # NoEntry

\* C4: every exchange of a code whose stored method is not S256 is refused
\* with invalid_grant, whatever challenge was stored and whatever verifier is
\* presented.
NonS256Rejected ==
    (FoundCode(last) /\ last.stored.CodeMethod # "S256") =>
        last.resp.status = 400 /\ last.resp.error = "invalid_grant"

\* C5 as stated: for an authorization started with a non-empty challenge C
\* and method S256, the code entry carries C and the exchange returns tokens
\* if and only if BASE64URL(SHA256(V)) = C for the presented verifier V.
PKCEBindingAsStated ==
    FoundCode(last) =>
        LET req == AuthorizeRequestOf(last.in.code) IN
        (req.code_challenge # "" /\ req.code_challenge_method = "S256") =>
            /\ last.stored.CodeChallenge = req.code_challenge
            /\ last.resp.status = 200 <=> S256(last.verifier) = req.code_challenge

\* C5: for an authorization started with a non-empty challenge C and method
\* S256, the code entry carries C and the exchange returns tokens if and only
\* if the presented verifier V is not empty and BASE64URL(SHA256(V)) = C.
PKCEBinding ==
    FoundCode(last) =>
        LET req == AuthorizeRequestOf(last.in.code) IN
        (req.code_challenge # "" /\ req.code_challenge_method = "S256") =>
            /\ last.stored.CodeChallenge = req.code_challenge
            /\ last.resp.status = 200
                  <=> (last.verifier # "" /\ S256(last.verifier) = req.code_challenge)

\* the verifier of the challenge is presented and the tokens are returned
PKCEBindingWitness ==
    /\ FoundCode(last)
    /\ AuthorizeRequestOf(last.in.code).code_challenge = S256(V1)
    /\ AuthorizeRequestOf(last.in.code).code_challenge_method = "S256"
    /\ last.verifier = V1
    /\ last.resp.status = 200
    /\ last.resp.body = last.stored.GoogleToken

-----------------------------------------------------------------------------
(* Properties of the callback's redirect (SpecRedirect).                   *)

\* C10: a successful callback for state t sends the caller to the
\* redirect_uri of the authorize request that created t, with the minted code,
\* which is in the code map, and with the state of that request when it had
\* one; the code entry has the client_id, redirect_uri, code_challenge and
\* method of that request.
RedirectCarriesRequest ==
    (last.kind = "callback" /\ last.token # "") =>
        LET req == hist.authReq[last.in.state]
            url == last.resp.location
        IN
        /\ HasPrefix(url, req.redirect_uri)
        /\ QueryGet(url, "code") = last.token
        /\ last.token \in DOMAIN codes
        /\ codes[last.token].ClientID = req.client_id
        /\ codes[last.token].RedirectURI = req.redirect_uri
        /\ codes[last.token].CodeChallenge = req.code_challenge
        /\ codes[last.token].CodeMethod = req.code_challenge_method
        /\ req.state # "" => QueryGet(url, "state") = req.state

-----------------------------------------------------------------------------
(* Properties of the /mcp endpoint (SpecRPC).                              *)

\* the bearer of an Authorization header: what follows "Bearer ", "" when the
\* header does not start with it
BearerOf(header) ==
    IF Len(header) >= 7 /\ SubSeq(header, 1, 7) = "Bearer "
    THEN SubSeq(header, 8, Len(header))
    ELSE ""

ScopeOf(ctx, header) ==
    /\ ctxKeyOAuthConfig \in DOMAIN ctx
    /\ ctxKeyAccessToken \in DOMAIN ctx
    /\ ctx[ctxKeyOAuthConfig] = "oauthConfig"
    /\ ctx[ctxKeyAccessToken].AccessToken = BearerOf(header)

\* C8: when a request has passed the middleware, the scope its tool handler
\* runs with has the upstream config and a token equal to the bearer; the
\* handler takes the context branch, never the credential files, and never
\* answers "no access token in context".
HandlerScope ==
    /\ \A i \in 1..Len(rpc) :
          /\ rpc[i].pc # "context" => ScopeOf(rpc[i].ctx, rpc[i].header)
          /\ rpc[i].pc = "upstream" => rpc[i].branch = "context"
    /\ rpcLast.forwarded =>
          /\ ScopeOf(rpcLast.ctx, rpcLast.header)
          /\ rpcLast.tool # "ping" => rpcLast.branch = "context"
          /\ rpcLast.result.err # "no access token in context"
          /\ ~HasPrefix(rpcLast.result.err, "authentication failed")

\* a forwarded download request ends with a URL built on the context branch
HandlerScopeWitness ==
    /\ rpcLast.forwarded
    /\ rpcLast.tool = "drive_download_url"
    /\ rpcLast.branch = "context"
    /\ rpcLast.result.err = ""
    /\ rpcLast.result.url # ""

\* C9: whatever the interleaving of the requests, the token in the scope of a
\* request, and the access_token of the URL it returns, is the bearer that
\* request presented.
BearerIsolation ==
    /\ \A i \in 1..Len(rpc) :
          ctxKeyAccessToken \in DOMAIN rpc[i].ctx =>
              rpc[i].ctx[ctxKeyAccessToken].AccessToken = BearerOf(rpc[i].header)
    /\ (rpcLast.forwarded /\ rpcLast.result.url # "") =>
          QueryGet(rpcLast.result.url, "access_token") = BearerOf(rpcLast.header)

\* a request gets its URL, with its own bearer, while a request with the other
\* bearer is in its handler
BearerIsolationWitness ==
    /\ rpcLast.forwarded
    /\ rpcLast.header = "Bearer token-a"
    /\ QueryGet(rpcLast.result.url, "access_token") = "token-a"
    /\ \E i \in 1..Len(rpc) : rpc[i].header = "Bearer token-b" /\ rpc[i].pc = "upstream"

-----------------------------------------------------------------------------
(* Properties of the registration of clients (SpecRegister).               *)

\* no step changes or removes a client record that exists
ClientsKept == \A c \in DOMAIN clients : c \in DOMAIN clients' /\ clients'[c] = clients[c]

\* C11: after an authorize request is answered 302 its client_id is in the
\* client map, and a client record that exists is never replaced, whatever
\* the interleaving of the authorize requests.
RegisteredClientKept ==
    /\ []((last.kind = "authorize" /\ last.resp.status = 302)
              => last.in.client_id \in DOMAIN clients)
    /\ [][ClientsKept]_vars

-----------------------------------------------------------------------------
(* Properties of the grant types (SpecGrants).                             *)

UnsupportedGrantType(resp) == resp.status = 400 /\ resp.error = "unsupported_grant_type"

\* C12: a POST to the token endpoint is processed exactly when its grant_type
\* is one the metadata advertises, authorization_code or refresh_token; every
\* other grant_type, an absent one too, is answered 400
\* unsupported_grant_type; a request that is not a POST is answered 405; and
\* authorization_code with an unknown code is answered 400 invalid_grant.
GrantTypesProcessed ==
    /\ GrantTypesSupported = {"authorization_code", "refresh_token"}
    /\ \A i \in 1..Len(toks) : toks[i].in.grant_type \in GrantTypesSupported
    /\ last.kind = "token" =>
          /\ last.in.method # "POST" => last.resp.status = 405
          /\ (last.in.method = "POST" /\ last.in.formOK) =>
                /\ UnsupportedGrantType(last.resp)
                      <=> last.in.grant_type \notin GrantTypesSupported
                /\ (last.in.grant_type = "authorization_code"
                        /\ last.in.code # "" /\ last.in.code \notin IssuedCodes)
                      => last.resp.status = 400 /\ last.resp.error = "invalid_grant"

\* a request without grant_type is answered 400 unsupported_grant_type
GrantTypesProcessedWitness ==
    /\ last.kind = "token"
    /\ last.in.method = "POST"
    /\ last.in.grant_type = ""
    /\ UnsupportedGrantType(last.resp)
    /\ last.resp.desc = "Unsupported grant type: "

-----------------------------------------------------------------------------
(* Properties of the credentials (SpecCredentials).                        *)

\* the documents of one shape: a JSON document with one of the three members
IsWebShape(d) ==
    /\ d.json /\ d.wrapper
    /\ d.installed = [client_id |-> "", client_secret |-> ""]
    /\ d.client_id = "" /\ d.client_secret = ""

IsInstalledShape(d) ==
    /\ d.json /\ d.wrapper
    /\ d.web = [client_id |-> "", client_secret |-> ""]
    /\ d.client_id = "" /\ d.client_secret = ""

IsFlatShape(d) ==
    /\ d.json /\ d.wrapper
    /\ d.web = [client_id |-> "", client_secret |-> ""]
    /\ d.installed = [client_id |-> "", client_secret |-> ""]

\* what a shape requires of a document whose pair is (id, secret)
ShapeParsed(out, id, secret) ==
    IF id # "" /\ secret # ""
    THEN out.err = "" /\ out.creds = [ClientID |-> id, ClientSecret |-> secret]
    ELSE out.err # "" /\ out.creds = NoCredentials

\* C13: for each of the shapes web, installed and flat, a document with a
\* non-empty client_id and client_secret parses to exactly that pair, and a
\* document in which either is missing or empty makes the parser fail.
ParsedOrMalformed ==
    call.op = "parseCredentials" =>
        /\ IsWebShape(call.in) =>
              ShapeParsed(call.out, call.in.web.client_id, call.in.web.client_secret)
        /\ IsInstalledShape(call.in) =>
              ShapeParsed(call.out, call.in.installed.client_id,
                          call.in.installed.client_secret)
        /\ IsFlatShape(call.in) =>
              ShapeParsed(call.out, call.in.client_id, call.in.client_secret)

\* the candidates of a load, in order: the vault when both names are set, the
\* configured file when there is one, the well-known paths; with what each
\* yields when it is loaded
Candidates(in) ==
    (IF in.secretName # "" /\ in.secretProject # ""
     THEN <<loadFromSecretManager(in.vault)>> ELSE <<>>)
    \o (IF in.credentialFile # "" THEN <<loadFromFile(in.files, in.credentialFile)>> ELSE <<>>)
    \o <<loadFromFile(in.files, DefaultPaths[1]), loadFromFile(in.files, DefaultPaths[2])>>

CompletePair(r) == r.err = "" /\ r.creds.ClientID # "" /\ r.creds.ClientSecret # ""

\* C14 as stated: the load returns the pair of the first candidate, in the
\* order vault, configured file, well-known paths, that yields a complete
\* pair, the candidates before it being skipped, and fails only when no
\* candidate yields one.
LoadSkipsFailedCandidatesAsStated ==
    call.op = "LoadOAuthCredentials" =>
        LET cands == Candidates(call.in)
            good == {i \in 1..Len(cands) : CompletePair(cands[i])}
        IN IF good = {}
           THEN call.out.err # ""
           ELSE call.out = cands[CHOOSE i \in good : \A j \in good : i <= j]

\* the one local candidate of a load: the configured file when there is one,
\* else the first well-known path that exists, else none ("")
LocalCandidate(in) ==
    IF in.credentialFile # "" THEN in.credentialFile
    ELSE IF in.files["credentials.json"].exists THEN "credentials.json"
    ELSE IF in.files["google_credentials.json"].exists THEN "google_credentials.json"
    ELSE ""

\* C14: the vault is tried first, when both secret name and project are set,
\* and its credentials are returned when it is available and its payload
\* parses; only a vault that fails is skipped. The load then returns what the
\* one local candidate yields, its credentials or its error, without trying
\* another; the local candidate is the configured file when there is one,
\* else the first well-known path that exists. Without any candidate the load
\* fails with "no OAuth credentials found".
LoadOrder ==
    call.op = "LoadOAuthCredentials" =>
        LET in == call.in
            vaultLoads == /\ in.secretName # "" /\ in.secretProject # ""
                          /\ in.vault.available
                          /\ parseCredentials(in.vault.data).err = ""
            path == LocalCandidate(in)
        IN IF vaultLoads
           THEN call.out = parseCredentials(in.vault.data)
           ELSE IF path = ""
           THEN call.out.err = "no OAuth credentials found"
           ELSE IF in.files[path].exists /\ in.files[path].readable
                     /\ parseCredentials(in.files[path].data).err = ""
           THEN call.out = parseCredentials(in.files[path].data)
           ELSE call.out.err # "" /\ call.out.err # "no OAuth credentials found"

\* the vault fails, no file is configured, credentials.json exists but is not
\* JSON, google_credentials.json is complete: the load fails
LoadOrderWitness ==
    /\ call.op = "LoadOAuthCredentials"
    /\ call.in.secretName # "" /\ call.in.secretProject # ""
    /\ ~call.in.vault.available
    /\ call.in.credentialFile = ""
    /\ call.in.files["credentials.json"] = File(TRUE, TRUE, BrokenDocument)
    /\ call.in.files["google_credentials.json"]
          = File(TRUE, TRUE, CompleteDocument("google_credentials.json"))
    /\ call.out.err = "parse credentials"

-----------------------------------------------------------------------------
(* Properties of the serving process (SpecServe).                          *)

\* C15: after SIGINT or SIGTERM the server accepts no new request, and
\* Server.Start does not return until every handler that was in flight has
\* completed or the 10-second shutdown deadline has elapsed.
ShutdownDrains ==
    /\ [](proc.start = "returned"
              => \/ proc.atReturn.inflight = 0
                 \/ proc.atReturn.elapsed >= shutdownTimeout)
    /\ [][proc.shutdown # "waiting" => proc'.inflight <= proc.inflight]_vars

\* C16: from the moment the server accepts requests the tools it has
\* registered, and the tools it lists to a caller, are ping with every read
\* and every write tool, and the registered set never changes afterwards.
DocumentedCatalog == RegisterWriteTools(RegisterReadTools(registerPingTool({})))

ToolCatalogComplete ==
    /\ [](proc.start # "idle" => proc.tools = DocumentedCatalog)
    /\ [](proc.listed # {} => proc.listed = DocumentedCatalog)
    /\ [][proc.start # "idle" => proc'.tools = proc.tools]_vars

-----------------------------------------------------------------------------
(* Properties of the Drive tools.                                          *)

\* C17: drive_activity_history returns at most 200 items, whatever the
\* maxResults argument is and whatever pages upstream serves.
ActivityHistoryCapped ==
    call.op = "drive_activity_history" => call.out.items <= activityCap

\* C18: drive_delete never deletes for good. When upstream answers, a request
\* for a file that is not in the trash leaves it in the trash, and a request
\* that arrives for a file already in the trash is answered "File is already
\* in trash" with no error and without a Files.Update call; no step changes
\* a file that is in the trash, so a second delete leaves what the first left.
DeleteAnswered == drive.lastDel.in # <<>>

DeleteServed ==
    /\ DeleteAnswered
    /\ drive.lastDel.in.serviceOK
    /\ drive.lastDel.in.getOK
    /\ drive.lastDel.in.updateOK
    /\ drive.lastDel.in.fileId \in DOMAIN drive.files

UrlBothCalled ==
    /\ call.op = "url"
    /\ call.out.download # NoResult
    /\ call.out.export # NoResult

DownloadRefused == HasPrefix(call.out.download.err, "cannot download Google Workspace file")

ExportRefused == Contains(call.out.export.err, "is not a Google Workspace file")

WorkspaceTypes ==
    {"application/vnd.google-apps.document", "application/vnd.google-apps.spreadsheet",
     "application/vnd.google-apps.presentation", "application/vnd.google-apps.form",
     "application/vnd.google-apps.drawing", "application/vnd.google-apps.map",
     "application/vnd.google-apps.site"}

UrlToolsDual ==
    UrlBothCalled
        => /\ DownloadRefused # ExportRefused
           /\ DownloadRefused <=> call.in.file.mimeType \in WorkspaceTypes
           /\ DownloadRefused => /\ Contains(call.out.download.err, "drive_export_url")
                                 /\ call.out.download.url = ""
           /\ ExportRefused => /\ Contains(call.out.export.err, "drive_download_url")
                               /\ call.out.export.url = ""

UrlToolsDualWitness ==
    /\ UrlBothCalled
    /\ DownloadRefused
    /\ call.in.file.mimeType = "application/vnd.google-apps.form"

\* C20: drive_folder_list returns the items of the folder with the folders
\* first and, among the folders and among the other items, in alphabetical
\* order of name, in whatever order upstream returned them.
Alphabet == ".abcdefghijklmnopqrstuvwxyz"

\* a comes before b, or is b, in alphabetical order
RECURSIVE NameLeq(_, _)
NameLeq(a, b) ==
    IF a = "" THEN TRUE
    ELSE IF b = "" THEN FALSE
    ELSE LET x == IndexOf(Alphabet, SubSeq(a, 1, 1))
             y == IndexOf(Alphabet, SubSeq(b, 1, 1))
         IN  IF x # y THEN x < y
             ELSE NameLeq(SubSeq(a, 2, Len(a)), SubSeq(b, 2, Len(b)))

ListedBefore(a, b) ==
    \/ IsFolder(a) /\ ~IsFolder(b)
    \/ IsFolder(a) = IsFolder(b) /\ NameLeq(a.name, b.name)

FolderListOrdered ==
    (call.op = "drive_folder_list" /\ call.out.err = "")
        => \A i, j \in 1..Len(call.out.results) :
               i < j => ListedBefore(call.out.results[i], call.out.results[j])

-----------------------------------------------------------------------------
(* Properties of the tool handlers.                                        *)

\* C21: when an argument a tool marks required is missing or empty, the tool
\* returns an error naming that argument, without calling getDriveService
\* and without calling the upstream API.
MissingRequired ==
    {f \in DOMAIN call.in.args : StringArg(call.in.args, f) = ""}

RequiredEnforcedAtEntry ==
    (call.op = "tool" /\ MissingRequired # {})
        => /\ \E f \in MissingRequired : Contains(call.out.err, f)
           /\ ~call.out.authenticated
           /\ ~call.out.upstream

\* C22: every entry drive_activity_changes returns has changeType Added,
\* Modified or Removed, also for a removed change without a file object.
ChangeTypeKnown ==
    call.op = "drive_activity_changes"
        => \A i \in 1..Len(call.out.results) :
               call.out.results[i].changeType \in {"Added", "Modified", "Removed"}

-----------------------------------------------------------------------------
(* Properties of the sweeper (SpecSweep).                                  *)

\* C23: every state entry and every code entry eventually leaves its map; a
\* step that is not a step of a request handler (a pass of the sweeper)
\* removes no entry whose age is at most 10 minutes, leaves no entry older
\* than 10 minutes in either map, and leaves the registered clients as they
\* were.
SweepKeys == {generateToken(n) : n \in 1..(3 * MaxAuthorize)}

NoHandlerStep == authz' = authz /\ cbs' = cbs /\ toks' = toks

SweeperPass == NoHandlerStep /\ <<states', codes'>> # <<states, codes>>

SweeperRemovesExpired ==
    /\ [](DOMAIN states \subseteq SweepKeys /\ DOMAIN codes \subseteq SweepKeys)
    /\ \A k \in SweepKeys : (k \in DOMAIN states) ~> (k \notin DOMAIN states)
    /\ \A k \in SweepKeys : (k \in DOMAIN codes) ~> (k \notin DOMAIN codes)
    /\ [][SweeperPass
            => /\ \A k \in DOMAIN states :
                      now - states[k].CreatedAt <= stateTTL => k \in DOMAIN states'
               /\ \A k \in DOMAIN codes :
                      now - codes[k].CreatedAt <= codeTTL => k \in DOMAIN codes'
               /\ \A k \in DOMAIN states' : now - states'[k].CreatedAt <= stateTTL
               /\ \A k \in DOMAIN codes' : now - codes'[k].CreatedAt <= codeTTL
               /\ clients' = clients]_vars

\* the sweeper has removed a state and a code that were never used, and an
\* entry of age exactly 10 minutes has survived
SweeperRemovesExpiredWitness ==
    /\ now > stateTTL
    /\ hist.started > 0
    /\ DOMAIN states = {}
    /\ DOMAIN codes = {}
    /\ last.kind = "callback"
    /\ last.resp.status = 302

-----------------------------------------------------------------------------
(* More properties of the authorization server (Spec).                     *)

\* C24: the code is taken out of the map before its TTL and PKCE are
\* checked: a token request refused for an expired code or for a missing or
\* wrong code_verifier leaves its code out of the map and held by no other
\* request, and once a code is neither in the map nor held by a request no
\* later request is granted tokens for it.
CodeHeld(c) == \E i \in 1..Len(toks) : toks[i].in.code = c

RefusedAfterLookup ==
    /\ IsExchange(last)
    /\ last.stored # NoEntry
    /\ last.resp.status = 400

CodeConsumedBeforePKCE ==
    /\ [](RefusedAfterLookup
              => /\ last.resp.error = "invalid_grant"
                 /\ last.in.code \notin DOMAIN codes
                 /\ ~CodeHeld(last.in.code))
    /\ [][\A c \in IssuedCodes :
              (c \notin DOMAIN codes /\ ~CodeHeld(c))
                  => /\ Count(hist'.granted, c) = Count(hist.granted, c)
                     /\ c \notin DOMAIN codes'
                     /\ (IsExchange(last') /\ last' # last /\ last'.in.code = c)
                            => /\ last'.resp.status = 400
                               /\ last'.resp.error = "invalid_grant"]_vars

\* a request quoting an issued code is answered invalid_grant after the code
\* was consumed by a request refused on PKCE: nothing was ever granted for it
CodeConsumedBeforePKCEWitness ==
    /\ IsExchange(last)
    /\ last.stored = NoEntry
    /\ last.in.code \in IssuedCodes
    /\ Count(hist.granted, last.in.code) = 0
    /\ ~CodeHeld(last.in.code)
    /\ now = 0
    /\ last.resp.error = "invalid_grant"

\* C25: a callback whose upstream exchange fails is answered 500
\* server_error, mints no code and leaves its state out of the map; once a
\* state is neither in the map nor held by a callback, a callback quoting it
\* is answered 400 "Invalid or expired state"; and no step that answers a
\* callback with an error adds an entry to the code map.
StateHeld(s) == \E i \in 1..Len(cbs) : cbs[i].in.state = s

ExchangeFailed ==
    /\ last.kind = "callback"
    /\ last.resp.status = 500

FailedCallbackMintsNothing ==
    /\ [](ExchangeFailed
              => /\ last.resp.error = "server_error"
                 /\ last.token = ""
                 /\ last.stored # NoEntry
                 /\ last.in.state \notin DOMAIN states
                 /\ ~StateHeld(last.in.state))
    /\ [][\A s \in IssuedStates :
              (s \notin DOMAIN states /\ ~StateHeld(s))
                  => /\ s \notin DOMAIN states'
                     /\ MintedFor(s)' = MintedFor(s)
                     /\ (last' # last /\ last'.kind = "callback" /\ last'.in.error = ""
                           /\ last'.in.code # "" /\ last'.in.state = s)
                            => /\ last'.resp.status = 400
                               /\ last'.resp.error = "invalid_request"
                               /\ last'.resp.desc = "Invalid or expired state"]_vars
    /\ [][(last' # last /\ last'.kind = "callback" /\ last'.resp.status >= 400)
              => codes' = codes]_vars

\* the callback that repeats a state whose exchange failed is refused
FailedCallbackMintsNothingWitness ==
    /\ last.kind = "callback"
    /\ last.stored = NoEntry
    /\ last.in.state \in IssuedStates
    /\ MintedFor(last.in.state) = {}
    /\ ~StateHeld(last.in.state)
    /\ now = 0
    /\ last.resp.desc = "Invalid or expired state"

-----------------------------------------------------------------------------
(* Properties of the shared upstream config (SpecConfig).                  *)

\* {base_url}/oauth/callback
UpstreamCallback == baseURL \o "/oauth/callback"

\* the answered request is an upstream authorize redirect
UpstreamRedirected ==
    /\ last.kind = "authorize"
    /\ last.resp.status = 302

\* the answered request is a callback whose upstream exchange was made
UpstreamExchanged ==
    /\ last.kind = "callback"
    /\ last.stored # NoEntry
    /\ last.token # "" \/ last.resp.status = 500

\* C26: under every interleaving of authorize and callback requests on the
\* one upstream config, every upstream authorize redirect and every
\* upstream code exchange uses {base_url}/oauth/callback as redirect URI,
\* and the RedirectURL of the config is never any other non-empty value.
SharedRedirectStable ==
    /\ redirectURL \in {"", UpstreamCallback}
    /\ UpstreamRedirected
          => /\ last.redirect = UpstreamCallback
             /\ last.resp.location = AuthCodeURL(UpstreamCallback, last.token)
    /\ UpstreamExchanged => last.redirect = UpstreamCallback

\* an authorization is redirected upstream while a callback sits between its
\* write of the config and its exchange, and a second authorization between
\* its write and its read of the config has been seen by then
SharedRedirectStableWitness ==
    /\ UpstreamRedirected
    /\ last.redirect = UpstreamCallback
    /\ \E i \in 1..Len(cbs) : cbs[i].pc = "exchange"
    /\ hist.started = MaxConfigAuthorize

-----------------------------------------------------------------------------
(* Properties of the activity query (SpecQuery).                           *)

Querying == call.op = "activity_query"

\* the step is a request of a page that fails
AttemptFailed ==
    /\ Querying
    /\ call.out.pc = "query"
    /\ call'.out.lastErr # ""
    /\ call'.out.attempts = call.out.attempts + 1

\* C27: a page is requested at most 4 times, the count restarting with every
\* page; a failed request is retried if and only if its error message
\* contains "429" or "rateLimitExceeded" and fewer than 3 retries were made
\* for the page; the waits before the retries of a page are 2 s, 4 s and
\* 8 s; any other failure ends the query with an error and no activities,
\* without a sleep.
RetryWithBackoff ==
    /\ [](Querying
              => /\ call.out.attempts <= 4
                 /\ call.out.retry <= 3
                 /\ call.out.waits = SubSeq(<<2, 4, 8>>, 1, call.out.retry)
                 /\ call.out.pc = "query" => call.out.attempts = call.out.retry
                 /\ call.out.pc = "sleep" => call.out.attempts = call.out.retry + 1)
    /\ [][AttemptFailed
              => /\ call'.out.pc = "sleep"
                    <=> /\ \/ Contains(call'.out.lastErr, "429")
                           \/ Contains(call'.out.lastErr, "rateLimitExceeded")
                        /\ call.out.retry < 3
                 /\ call'.out.pc # "sleep"
                    => /\ call'.out.pc = "done"
                       /\ call'.out.err # ""
                       /\ call'.out.activities = <<>>
                       /\ call'.out.slept = call.out.slept]_vars
    /\ [][(Querying /\ call.out.pc = "sleep")
              => /\ call'.out.pc = "query"
                 /\ call'.out.retry = call.out.retry + 1
                 /\ call'.out.slept - call.out.slept = 2 * (2 ^ call.out.retry)]_vars
    /\ [][(Querying /\ call'.out.pageCount # call.out.pageCount /\ call'.out.pc # "done")
              => /\ call'.out.retry = 0
                 /\ call'.out.attempts = 0
                 /\ call'.out.waits = <<>>]_vars

\* the second page is given up on its fourth rate-limit error, after a first
\* page that took a retry as well: the activities of the first page are not
\* returned
RetryWithBackoffWitness ==
    /\ Querying
    /\ call.out.pc = "done"
    /\ call.out.pageCount = 1
    /\ call.out.offset > 0
    /\ call.out.attempts = 4
    /\ call.out.waits = <<2, 4, 8>>
    /\ call.out.slept = 16
    /\ IsRateLimit(call.out.lastErr)
    /\ call.out.activities = <<>>
    /\ call.out.err # ""

\* the query has a limit and no request of it has failed
LimitedErrorFree ==
    /\ Querying
    /\ call.in.maxResults > 0
    /\ ~call.out.failed

Min(a, b) == IF a < b THEN a ELSE b

\* C28: with maxResults = m > 0 and no failing request the query ends; it
\* is over once m activities are held or a page has come without a next
\* page token, so no page is requested after that; every request asks for
\* min(m, 100) activities; the result is the first min(m, available)
\* activities in upstream order.
QueryStopsAtLimit ==
    /\ Querying ~> (Querying /\ (call.out.pc = "done" \/ call.out.failed))
    /\ [](LimitedErrorFree
              => /\ call.out.sizes \subseteq {Min(call.in.maxResults, 100)}
                 /\ Len(call.out.activities) >= call.in.maxResults => call.out.pc = "done"
                 /\ ~call.out.hasNext => call.out.pc = "done"
                 /\ call.out.pc = "done"
                        => call.out.activities
                               = Ids(0, Min(call.in.maxResults, call.in.available)))
    /\ [][(LimitedErrorFree /\ call.out.pc = "done") => call'.out = call.out]_vars

\* two of three activities are asked for; the first page is short and the
\* second brings the two that are left: the query returns inside that page
\* with the first two
QueryStopsAtLimitWitness ==
    /\ LimitedErrorFree
    /\ call.in.maxResults = 2
    /\ call.in.available = 3
    /\ call.out.pc = "done"
    /\ call.out.pageCount = 2
    /\ call.out.offset = 3
    /\ call.out.hasNext
    /\ call.out.activities = <<1, 2>>

-----------------------------------------------------------------------------
(* Properties of the path reconstruction (SpecPath).                       *)

\* drive_file_info was called for the target of the chain and its metadata
\* fetch succeeded
FileInfoFetched ==
    /\ call.op = "drive_file_info"
    /\ call.in.serviceOK
    /\ call.in.getOK
    /\ call.in.fileId = "f1"

\* the nodes f_k, ..., f1
Ancestors(k) ==
    [i \in 1..k |-> PathComponent(NodeId(k - i + 1), NodeName(k - i + 1), NodeMime(k - i + 1))]

-----------------------------------------------------------------------------
(* Properties of drive_create_upload_url (SpecUpload).                     *)

\* the tool answered with a URL
UploadUrlMade ==
    /\ call.op = "drive_create_upload_url"
    /\ call.out.err = ""

\* the files of the target folder that have the name and are not in the trash
SameNamed ==
    {i \in 1..Len(call.in.files) :
        /\ call.in.files[i].name = call.in.fileName
        /\ call.in.files[i].parent = call.in.folderId
        /\ ~call.in.files[i].trashed}

UploadBase == "https://www.googleapis.com/upload/drive/v3/files"

\* C30: whatever the probe call returns, the answer is an update URL with
\* isUpdate true and the id of the existing file exactly when the target
\* folder holds a file of that name that is not in the trash; otherwise it
\* is a create URL with isUpdate false and an empty fileId.
UploadUrlFollowsFolder ==
    UploadUrlMade
        => IF SameNamed # {}
           THEN /\ call.out.isUpdate
                /\ \E i \in SameNamed : call.out.fileId = call.in.files[i].id
                /\ HasPrefix(call.out.uploadUrl, UploadBase \o "/" \o call.out.fileId \o "?")
           ELSE /\ ~call.out.isUpdate
                /\ call.out.fileId = ""
                /\ HasPrefix(call.out.uploadUrl, UploadBase \o "?")

====
